---------------------------- MODULE Spec2Model ----------------------------
(***************************************************************************)
(* State-machine model of LittleCrawler's session/resource core:           *)
(*   - ProxyIpPool      (src/src/services/proxy/proxy_ip_pool.py)          *)
(*   - AsyncFileWriter  (src/src/utils/async_file_writer.py)               *)
(*   - XiaoHongShuPublisher (src/src/platforms/xhs/publisher.py)           *)
(* Every coroutine is cut at its await points: one action runs the code    *)
(* between two consecutive suspension points of one asyncio task.          *)
(***************************************************************************)
EXTENDS Integers, Sequences, FiniteSets, TLC

(***************************************************************************)
(* Bounds of the model                                                     *)
(***************************************************************************)
NumTasks == 2
NumEndpoints == 2
MaxPoolCount == 2
MaxTime == 2
MaxBuffer == 1
NumCalls == 3
NumFileIds == 2
MaxUploads == 3
MaxReadyTimeout == 3
MaxImages == 2
MaxTopics == 2
MaxMatches == 2
MaxInterval == 3
MaxActions == 6
MaxLaunches == 2
MaxDescLen == 2

(***************************************************************************)
(* Program constants                                                       *)
(***************************************************************************)
\* @retry(stop=stop_after_attempt(3), ...) on ProxyIpPool.get_proxy
PoolMaxAttempts == 3
\* fixed lifetime of an endpoint, stamped by the provider when it issues it
Lifetime == 2
\* @retry(stop=stop_after_attempt(3), ...) on XiaoHongShuPublisher._request
RequestMaxAttempts == 3
\* find_available_port: while port < start_port + 100
PortAttempts == 100
\* config.CDP_DEBUG_PORT, the default start port
CDP_DEBUG_PORT == 9222
\* socket.bind accepts the port numbers 0..65535 and raises OverflowError
\* for any other
MaxPort == 65535

Tasks == 1..NumTasks
EndpointIds == 1..NumEndpoints

VARIABLES
    \* ---- ProxyIpPool ----
    proxy_list,          \* self.proxy_list : sequence of endpoints
    current_proxy,       \* self.current_proxy (NoEndpoint models None)
    enable_validate_ip,  \* self.enable_validate_ip
    ip_pool_count,       \* self.ip_pool_count
    created,             \* create_ip_pool has returned the pool
    task,                \* per asyncio task: position inside get_proxy
    drawn,               \* drawn[id]: draws of endpoint id since the last load
    issued,              \* issued[id]: returns of endpoint id drawn since the last load
    now,                 \* wall clock (time.time())
    checked,             \* the latest call of is_current_proxy_expired and its answer
    \* ---- AsyncFileWriter (one writer, one category) ----
    wlock,               \* self.lock: the call holding it (0: free)
    wfile,               \* the JSON target: does it exist, and its text
    wcall,               \* per call of write_single_item_to_json: its position
    csvfile,             \* the CSV target: does it exist, and its rows
    csvcall,             \* per call of write_to_csv: its position
    \* ---- XiaoHongShuPublisher (one publish_note run) ----
    pub,                 \* the run: its position, inputs, partial results, outcome
    signs,               \* number of sign_func invocations so far
    reqLog,              \* every HTTP request sent, in order: [step, idx, sig, slot, token]
    \* ---- HumanBehavior (one scheduler) ----
    enabled,             \* self.enabled
    action_count,        \* self.action_count
    break_interval,      \* self.break_interval
    breaking,            \* breaking[t]: task t waits in session_break_delay
    calls,               \* check_and_take_break calls made so far
    breaks,              \* session-break waits started so far
    delay,               \* the latest delay generated: category, input, seconds
    \* ---- BrowserLauncher (one manager) and the processes it spawned ----
    browser_process,     \* self.browser_process: 0 (None) or the process it refers to
    proc,                \* per spawned process: its leader, the rest of its group
    life,                \* where the manager stands in its lifecycle
    last,                \* the latest method call: what it found, what it sent
    system,              \* self.system: platform.system()
    \* ---- XiaoHongShuPublisher._build_desc_with_topics ----
    composition,         \* a description, the topics, and what composing them gave
    \* ---- api/routers/publisher.py (the upload, publish and delete endpoints) ----
    uploaded_images,     \* _uploaded_images: file_id -> temporary file (0: no entry)
    tmpfiles,            \* the temporary files that exist
    tmpcount,            \* temporary files created so far
    uploading,           \* upload requests waiting for the permit and the PUT
    publishing,          \* publish requests waiting for the publisher: image_ids, files taken
    consumed,            \* per temporary file: successful publishes whose images held it
    gone,                \* every registry entry removed: by which request, with what outcome
    \* ---- BrowserLauncher.find_available_port ----
    probe,               \* one call: start_port, the ports free on the host, the outcome
    \* ---- BrowserLauncher.wait_for_browser_ready ----
    ready,               \* one call: timeout, clock, the port's state, connects, the answer
    \* ---- ProxyRefreshMixin (the clients that share the pool, one per task) ----
    client_proxy,        \* self.proxy of each client: the proxy URL it sends through
    refreshing           \* per client: where its _refresh_proxy_if_expired call stands

poolVars == <<proxy_list, current_proxy, enable_validate_ip, ip_pool_count,
              created, task, drawn, issued, now>>

writerVars == <<wlock, wfile, wcall>>

csvVars == <<csvfile, csvcall>>

apiVars == <<uploaded_images, tmpfiles, tmpcount, uploading, publishing, consumed, gone>>

portVars == <<probe>>

readyVars == <<ready>>

mixinVars == <<client_proxy, refreshing>>

pubVars == <<pub, signs, reqLog>>

checkVars == <<checked>>

hbVars == <<enabled, action_count, break_interval, breaking, calls, breaks, delay>>

blVars == <<browser_process, proc, life, last, system>>

descVars == <<composition>>

vars == <<poolVars, checkVars, writerVars, pubVars, hbVars, blVars, descVars, csvVars, apiVars, portVars, readyVars, mixinVars>>

\* what each component leaves alone
notPool == <<checkVars, writerVars, pubVars, hbVars, blVars, descVars, csvVars, apiVars, portVars, readyVars, mixinVars>>
notCheck == <<poolVars, writerVars, pubVars, hbVars, blVars, descVars, csvVars, apiVars, portVars, readyVars, mixinVars>>
notWriter == <<poolVars, checkVars, pubVars, hbVars, blVars, descVars, csvVars, apiVars, portVars, readyVars, mixinVars>>
notPub == <<poolVars, checkVars, writerVars, hbVars, blVars, descVars, csvVars, apiVars, portVars, readyVars, mixinVars>>
notHb == <<poolVars, checkVars, writerVars, pubVars, blVars, descVars, csvVars, apiVars, portVars, readyVars, mixinVars>>
notBl == <<poolVars, checkVars, writerVars, pubVars, hbVars, descVars, csvVars, apiVars, portVars, readyVars, mixinVars>>
notDesc == <<poolVars, checkVars, writerVars, pubVars, hbVars, blVars, csvVars, apiVars, portVars, readyVars, mixinVars>>
notCsv == <<poolVars, checkVars, pubVars, hbVars, blVars, descVars, apiVars, portVars, readyVars, mixinVars>>
notApi == <<poolVars, checkVars, writerVars, pubVars, hbVars, blVars, descVars, csvVars, portVars, readyVars, mixinVars>>
notPort == <<poolVars, checkVars, writerVars, pubVars, hbVars, blVars, descVars, csvVars, apiVars, readyVars, mixinVars>>
notReady == <<poolVars, checkVars, writerVars, pubVars, hbVars, blVars, descVars, csvVars, apiVars, portVars, mixinVars>>
notMixin == <<checkVars, writerVars, pubVars, hbVars, blVars, descVars, csvVars, apiVars, portVars, readyVars>>

(***************************************************************************)
(* ProxyIpPool                                                             *)
(***************************************************************************)
NoEndpoint == [id |-> 0, expiry |-> 0]

Endpoint(i, e) == [id |-> i, expiry |-> e]

\* IpInfoModel.is_expired(buffer_seconds): now >= expiry - buffer_seconds
IsExpired(p, b) == now >= p.expiry - b

NoRet == [kind |-> "none", fresh |-> FALSE]

\* a task outside any pool call; ret is what its last call returned
\* (fresh: the returned endpoint was not expired when it was returned).
\* Inside a call: attempts counts tenacity's attempts, proxy is the local
\* variable of get_proxy, draws counts the endpoints the call has drawn,
\* stale says that the pool was loaded again after proxy was drawn, and
\* fetched that the call has asked the provider for endpoints.
IdleTask == [pc |-> "idle", op |-> "none", buf |-> 0, attempts |-> 0,
             proxy |-> NoEndpoint, stale |-> FALSE, draws |-> 0, fetched |-> FALSE,
             ret |-> NoRet]

NoneDrawn == [i \in EndpointIds |-> 0]

is_current_proxy_expired_NoneIsFresh(b) ==
    IF current_proxy = NoEndpoint THEN FALSE ELSE IsExpired(current_proxy, b)

\* ProxyIpPool.is_current_proxy_expired(buffer_seconds)
is_current_proxy_expired(b) ==
    IF current_proxy = NoEndpoint THEN TRUE ELSE IsExpired(current_proxy, b)

\* list.remove(x): drops the first element equal to x
RECURSIVE Remove(_, _)
Remove(list, x) ==
    IF list = <<>> THEN <<>>
    ELSE IF Head(list) = x THEN Tail(list)
    ELSE <<Head(list)>> \o Remove(Tail(list), x)

RemoveDrawn_Skip(list, p) == list

\* self.proxy_list.remove(proxy)
RemoveDrawn(list, p) == Remove(list, p)

NeedsReload_OffByOne == Len(proxy_list) <= 1

\* if len(self.proxy_list) == 0
NeedsReload == Len(proxy_list) = 0

MayRetry_OneMore(attempts) == attempts <= PoolMaxAttempts

\* stop=stop_after_attempt(3): another attempt follows a failed one
MayRetry(attempts) == attempts < PoolMaxAttempts

\* ip_provider.get_proxy(n): up to n endpoints, no endpoint twice in one
\* answer, each stamped with expiry = issue time + Lifetime.  The answers are
\* listed by ascending id: random.choice makes the order immaterial.
RECURSIVE DistinctSeqs(_, _)
DistinctSeqs(ids, n) ==
    IF n = 0 THEN {<<>>}
    ELSE {<<>>} \cup
         UNION {{<<Endpoint(i, now + Lifetime)>> \o s :
                    s \in DistinctSeqs({j \in ids : j > i}, n - 1)} : i \in ids}

ProviderAnswers(n) == DistinctSeqs(EndpointIds, n)

\* an attempt raised: tenacity sleeps and runs the body again, or gives up
\* with RetryError after the last attempt
FailAttempt(t, tk) ==
    IF MayRetry(tk.attempts)
    THEN task' = [task EXCEPT ![t] = [tk EXCEPT !.pc = "backoff", !.proxy = NoEndpoint,
                                                 !.stale = FALSE]]
    ELSE task' = [task EXCEPT ![t] = [IdleTask EXCEPT !.op = tk.op,
                                         !.ret = [kind |-> "RetryError", fresh |-> FALSE]]]

\* self.current_proxy = proxy; return proxy
ReturnProxy(t, tk, p, iss) ==
    /\ current_proxy' = p
    /\ task' = [task EXCEPT ![t] = [IdleTask EXCEPT !.op = tk.op,
                                       !.ret = [kind |-> "ok",
                                                fresh |-> ~IsExpired(p, tk.buf)]]]
    /\ issued' = IF tk.stale THEN iss ELSE [iss EXCEPT ![p.id] = @ + 1]

\* proxy = random.choice(self.proxy_list); self.proxy_list.remove(proxy);
\* then either await the validation probe or return at once.
\* tasks is the task table, drw and iss the draw and issue counts to go on from.
DrawFrom(t, tk, list, tasks, drw, iss) ==
    IF list = <<>>
    THEN \* random.choice([]) raises IndexError
         /\ proxy_list' = list
         /\ IF MayRetry(tk.attempts)
            THEN task' = [tasks EXCEPT ![t] = [tk EXCEPT !.pc = "backoff"]]
            ELSE task' = [tasks EXCEPT ![t] = [IdleTask EXCEPT !.op = tk.op,
                              !.ret = [kind |-> "RetryError", fresh |-> FALSE]]]
         /\ drawn' = drw
         /\ issued' = iss
         /\ UNCHANGED current_proxy
    ELSE \E i \in 1..Len(list) :
            LET p == list[i]
                tk2 == [tk EXCEPT !.draws = @ + 1]
            IN /\ proxy_list' = RemoveDrawn(list, p)
               /\ drawn' = [drw EXCEPT ![p.id] = @ + 1]
               /\ IF enable_validate_ip
                  THEN /\ task' = [tasks EXCEPT ![t] = [tk2 EXCEPT !.pc = "validate",
                                                                   !.proxy = p]]
                       /\ issued' = iss
                       /\ UNCHANGED current_proxy
                  ELSE /\ current_proxy' = p
                       /\ task' = [tasks EXCEPT ![t] = [IdleTask EXCEPT !.op = tk.op,
                                       !.ret = [kind |-> "ok",
                                                fresh |-> ~IsExpired(p, tk.buf)]]]
                       /\ issued' = [iss EXCEPT ![p.id] = @ + 1]

\* the body of get_proxy up to its first await
BeginAttempt(t, tk) ==
    IF NeedsReload
    THEN \* _reload_proxies: self.proxy_list = []; await self.load_proxies()
         /\ proxy_list' = <<>>
         /\ task' = [task EXCEPT ![t] = [tk EXCEPT !.pc = "reload", !.fetched = TRUE]]
         /\ UNCHANGED <<current_proxy, drawn, issued>>
    ELSE DrawFrom(t, tk, proxy_list, task, drawn, issued)

\* create_ip_pool: the constructor, then await pool.load_proxies()
create_ip_pool ==
    /\ ~created
    /\ \E l \in ProviderAnswers(ip_pool_count) : proxy_list' = l
    /\ created' = TRUE
    /\ UNCHANGED <<current_proxy, enable_validate_ip, ip_pool_count, task, drawn,
                   issued, now>>
    /\ UNCHANGED notPool

\* a task calls pool.get_proxy()
get_proxy(t) ==
    /\ created
    /\ task[t].pc = "idle"
    /\ BeginAttempt(t, [IdleTask EXCEPT !.op = "get_proxy", !.attempts = 1])
    /\ UNCHANGED <<enable_validate_ip, ip_pool_count, created, now>>
    /\ UNCHANGED notPool

\* a task calls pool.get_or_refresh_proxy(b)
get_or_refresh_proxy_body(t, b) ==
    /\ created
    /\ task[t].pc = "idle"
    /\ IF is_current_proxy_expired(b)
       THEN BeginAttempt(t, [IdleTask EXCEPT !.op = "get_or_refresh", !.buf = b,
                                             !.attempts = 1])
       ELSE /\ task' = [task EXCEPT ![t] =
                          [IdleTask EXCEPT !.op = "get_or_refresh",
                                           !.ret = [kind |-> "ok",
                                                    fresh |-> ~IsExpired(current_proxy, b)]]]
            /\ UNCHANGED <<proxy_list, current_proxy, drawn, issued>>
    /\ UNCHANGED <<enable_validate_ip, ip_pool_count, created, now>>

get_or_refresh_proxy(t, b) == get_or_refresh_proxy_body(t, b) /\ UNCHANGED notPool

\* load_proxies returns inside _reload_proxies: the list is replaced and the
\* attempt goes on to draw from it without suspending.  Endpoints drawn
\* earlier and still being validated now stem from a replaced list.
ReloadReturns_body(t) ==
    /\ task[t].pc = "reload"
    /\ \E l \in ProviderAnswers(ip_pool_count) :
          DrawFrom(t, task[t], l,
                   [u \in Tasks |-> IF task[u].pc = "validate"
                                    THEN [task[u] EXCEPT !.stale = TRUE] ELSE task[u]],
                   NoneDrawn, NoneDrawn)
    /\ UNCHANGED <<enable_validate_ip, ip_pool_count, created, now>>

ReloadReturns(t) == ReloadReturns_body(t) /\ UNCHANGED notPool

\* the provider call raises inside load_proxies
ReloadFails_body(t) ==
    /\ task[t].pc = "reload"
    /\ FailAttempt(t, task[t])
    /\ UNCHANGED <<proxy_list, current_proxy, enable_validate_ip, ip_pool_count,
                   created, drawn, issued, now>>

ReloadFails(t) == ReloadFails_body(t) /\ UNCHANGED notPool

\* _is_valid_proxy returns True
ValidateOk_body(t) ==
    /\ task[t].pc = "validate"
    /\ ReturnProxy(t, task[t], task[t].proxy, issued)
    /\ UNCHANGED <<proxy_list, enable_validate_ip, ip_pool_count, created, drawn, now>>

ValidateOk(t) == ValidateOk_body(t) /\ UNCHANGED notPool

\* _is_valid_proxy returns False (get_proxy raises) or raises itself
ValidateFails_body(t) ==
    /\ task[t].pc = "validate"
    /\ FailAttempt(t, task[t])
    /\ UNCHANGED <<proxy_list, current_proxy, enable_validate_ip, ip_pool_count,
                   created, drawn, issued, now>>

ValidateFails(t) == ValidateFails_body(t) /\ UNCHANGED notPool

\* wait_fixed(1) is over: tenacity runs the body of get_proxy again
RetryAttempt_body(t) ==
    /\ task[t].pc = "backoff"
    /\ BeginAttempt(t, [task[t] EXCEPT !.attempts = @ + 1])
    /\ UNCHANGED <<enable_validate_ip, ip_pool_count, created, now>>

RetryAttempt(t) == RetryAttempt_body(t) /\ UNCHANGED notPool

\* time passes
Tick ==
    /\ now < MaxTime
    /\ now' = now + 1
    /\ UNCHANGED <<proxy_list, current_proxy, enable_validate_ip, ip_pool_count,
                   created, task, drawn, issued>>
    /\ UNCHANGED notPool

NoCheck == [asked |-> FALSE, b |-> 0, at |-> 0, answer |-> FALSE]

\* a caller asks pool.is_current_proxy_expired(b); the method reads
\* current_proxy and the clock and assigns nothing
CheckExpired(b) ==
    /\ checked' = [asked |-> TRUE, b |-> b, at |-> now,
                   answer |-> is_current_proxy_expired(b)]
    /\ UNCHANGED notCheck

PoolInit ==
    /\ proxy_list = <<>>
    /\ current_proxy = NoEndpoint
    /\ enable_validate_ip \in BOOLEAN
    /\ ip_pool_count \in 1..MaxPoolCount
    /\ created = FALSE
    /\ task = [t \in Tasks |-> IdleTask]
    /\ drawn = NoneDrawn
    /\ issued = NoneDrawn
    /\ now = 0
    /\ checked = NoCheck

\* what goes on inside a get_proxy call once it has started
PoolStep ==
    \/ \E t \in Tasks : ReloadReturns(t)
    \/ \E t \in Tasks : ReloadFails(t)
    \/ \E t \in Tasks : ValidateOk(t)
    \/ \E t \in Tasks : ValidateFails(t)
    \/ \E t \in Tasks : RetryAttempt(t)

\* the steps of the call made by task t
TaskStep(t) ==
    \/ ReloadReturns(t)
    \/ ReloadFails(t)
    \/ ValidateOk(t)
    \/ ValidateFails(t)
    \/ RetryAttempt(t)

\* tasks that call get_proxy() directly, with the clock at rest
PoolNext ==
    \/ create_ip_pool
    \/ \E t \in Tasks : get_proxy(t)
    \/ PoolStep

\* tasks that go through get_or_refresh_proxy(b) while time passes
PoolClockNext ==
    \/ create_ip_pool
    \/ \E t \in Tasks : \E b \in 0..MaxBuffer : get_or_refresh_proxy(t, b)
    \/ PoolStep
    \/ Tick

\* the pool as constructed, no caller active
PoolQuiet ==
    /\ proxy_list = <<>>
    /\ current_proxy = NoEndpoint
    /\ enable_validate_ip = FALSE
    /\ ip_pool_count = 1
    /\ created = FALSE
    /\ task = [t \in Tasks |-> IdleTask]
    /\ drawn = NoneDrawn
    /\ issued = NoneDrawn
    /\ now = 0
    /\ checked = NoCheck

\* a pool in use at some moment of its life: a list as a load left it, and
\* no current endpoint or one that was issued at an earlier moment
ExpiryInit ==
    /\ now \in 0..MaxTime
    /\ ip_pool_count \in 1..MaxPoolCount
    /\ proxy_list \in ProviderAnswers(ip_pool_count)
    /\ current_proxy \in {NoEndpoint} \cup
           {Endpoint(i, at + Lifetime) : i \in EndpointIds, at \in 0..now}
    /\ enable_validate_ip = FALSE
    /\ created = TRUE
    /\ task = [t \in Tasks |-> IdleTask]
    /\ drawn = NoneDrawn
    /\ issued = NoneDrawn
    /\ checked = NoCheck

\* callers that only ask whether the current endpoint has expired, while
\* time passes
ExpiryNext ==
    \/ \E b \in 0..MaxBuffer : CheckExpired(b)
    \/ Tick

(***************************************************************************)
(* ProxyRefreshMixin                                                       *)
(* Each task is an API client that shares the pool; before a request it    *)
(* calls _refresh_proxy_if_expired().  A client without a pool returns at  *)
(* line 48 and is not modelled.                                            *)
(***************************************************************************)
\* buffer_seconds of the calls the mixin makes (the default of both pool
\* methods), in the model's time unit
RefreshBuffer == 1

\* f"http://{ip}:{port}", with user and password when set: the endpoint's
\* address, without its expiry
ProxyUrl(p) == p.id

\* lines 54-59: where the call stands after a step of the pool method it
\* awaits.  A return hands over the endpoint just stored in current_proxy,
\* and self.proxy is set from it in the same step; a RetryError leaves
\* the method.
AfterPoolStep(t) ==
    IF task'[t].pc # "idle"
    THEN /\ refreshing' = [refreshing EXCEPT ![t] = "awaiting"]
         /\ UNCHANGED client_proxy
    ELSE IF task'[t].ret.kind = "ok"
    THEN /\ client_proxy' = [client_proxy EXCEPT ![t] = ProxyUrl(current_proxy')]
         /\ refreshing' = [refreshing EXCEPT ![t] = "returned"]
    ELSE /\ refreshing' = [refreshing EXCEPT ![t] = "raised"]
         /\ UNCHANGED client_proxy

\* a client calls _refresh_proxy_if_expired(): lines 50-54 up to the first
\* suspension of get_or_refresh_proxy, or the return when nothing expired
refresh_proxy_if_expired(t) ==
    /\ refreshing[t] = "idle"
    /\ task[t].pc = "idle"
    /\ IF is_current_proxy_expired(RefreshBuffer)
       THEN /\ get_or_refresh_proxy_body(t, RefreshBuffer)
            /\ AfterPoolStep(t)
       ELSE /\ refreshing' = [refreshing EXCEPT ![t] = "returned"]
            /\ UNCHANGED <<client_proxy, poolVars>>
    /\ UNCHANGED notMixin

\* the pool method the client awaits takes a step
RefreshResumes(t) ==
    /\ refreshing[t] = "awaiting"
    /\ \/ ReloadReturns_body(t)
       \/ ReloadFails_body(t)
       \/ ValidateOk_body(t)
       \/ ValidateFails_body(t)
       \/ RetryAttempt_body(t)
    /\ AfterPoolStep(t)
    /\ UNCHANGED notMixin

\* the client sends its request through self.proxy (or handles the error)
\* and comes back for the next one
NextRequest(t) ==
    /\ refreshing[t] \in {"returned", "raised"}
    /\ refreshing' = [refreshing EXCEPT ![t] = "idle"]
    /\ UNCHANGED <<client_proxy, poolVars, notMixin>>

\* a pool in use whose current endpoint was issued now, and clients that
\* took their proxy URL from it; the list is what is left of a load
MixinInit ==
    /\ now = 0
    /\ ip_pool_count \in 1..MaxPoolCount
    /\ current_proxy \in {Endpoint(i, Lifetime) : i \in EndpointIds}
    /\ proxy_list \in {l \in ProviderAnswers(ip_pool_count) :
                          \A k \in 1..Len(l) : l[k].id # current_proxy.id}
    /\ enable_validate_ip \in BOOLEAN
    /\ created = TRUE
    /\ task = [t \in Tasks |-> IdleTask]
    /\ drawn = NoneDrawn
    /\ issued = NoneDrawn
    /\ checked = NoCheck
    /\ client_proxy = [t \in Tasks |-> ProxyUrl(current_proxy)]
    /\ refreshing = [t \in Tasks |-> "idle"]

MixinQuiet ==
    /\ client_proxy = [t \in Tasks |-> 0]
    /\ refreshing = [t \in Tasks |-> "idle"]

MixinNext ==
    \/ \E t \in Tasks : refresh_proxy_if_expired(t)
    \/ \E t \in Tasks : RefreshResumes(t)
    \/ \E t \in Tasks : NextRequest(t)
    \/ Tick

(***************************************************************************)
(* AsyncFileWriter.write_single_item_to_json                               *)
(* The text of the target is a sequence of tokens; json.dumps writes it    *)
(* and json.loads parses it.  Call c appends the record c.                 *)
(***************************************************************************)
Calls == 1..NumCalls

LBracket == [t |-> "[", v |-> 0]
RBracket == [t |-> "]", v |-> 0]
Comma == [t |-> ",", v |-> 0]
Item(c) == [t |-> "item", v |-> c]

\* json.dumps(list): "[" item "," item ... "]"
RECURSIVE Joined(_)
Joined(list) ==
    IF list = <<>> THEN <<>>
    ELSE IF Len(list) = 1 THEN <<Item(list[1])>>
    ELSE <<Item(list[1]), Comma>> \o Joined(Tail(list))

Dumps(list) == <<LBracket>> \o Joined(list) \o <<RBracket>>

\* the text between the brackets is item ("," item)*
ItemsWellFormed(s) ==
    \/ s = <<>>
    \/ /\ Len(s) % 2 = 1
       /\ \A k \in 1..Len(s) : IF k % 2 = 1 THEN s[k].t = "item" ELSE s[k] = Comma

IsArrayText(text) ==
    /\ Len(text) >= 2
    /\ text[1] = LBracket
    /\ text[Len(text)] = RBracket
    /\ ItemsWellFormed(SubSeq(text, 2, Len(text) - 1))

ArrayItems(text) ==
    LET s == SubSeq(text, 2, Len(text) - 1)
    IN [k \in 1..((Len(s) + 1) \div 2) |-> s[2 * k - 1].v]

\* lines 84-94: existing_data after reading the target.  Empty text leaves
\* [], an array gives its records, a single value is wrapped in a list, and
\* text that does not parse (JSONDecodeError) gives [].
LoadExisting(text) ==
    IF text = <<>> THEN <<>>
    ELSE IF IsArrayText(text) THEN ArrayItems(text)
    ELSE IF Len(text) = 1 /\ text[1].t = "item" THEN <<text[1].v>>
    ELSE <<>>

IdleCall == [pc |-> "idle", existing |-> <<>>]

CanAcquire_NoLock(c) == TRUE

\* async with self.lock: asyncio.Lock lets one task in at a time
CanAcquire(c) == wlock = 0

\* a task calls write_single_item_to_json(item, item_type): the path is
\* computed and the task asks for the lock
write_single_item_to_json(c) ==
    /\ wcall[c].pc = "idle"
    /\ wcall' = [wcall EXCEPT ![c].pc = "waiting"]
    /\ UNCHANGED <<wlock, wfile, notWriter>>

\* the lock is granted; lines 84-86 decide whether the target is read
WAcquire(c) ==
    /\ wcall[c].pc = "waiting"
    /\ CanAcquire(c)
    /\ wlock' = c
    /\ IF wfile.exists /\ Len(wfile.text) > 0
       THEN wcall' = [wcall EXCEPT ![c].pc = "read"]
       ELSE wcall' = [wcall EXCEPT ![c] = [pc |-> "open_w", existing |-> <<c>>]]
    /\ UNCHANGED <<wfile, notWriter>>

\* lines 86-96: the target is read and parsed, the item is appended in memory
WRead(c) ==
    /\ wcall[c].pc = "read"
    /\ wcall' = [wcall EXCEPT ![c] = [pc |-> "open_w",
                                      existing |-> Append(LoadExisting(wfile.text), c)]]
    /\ UNCHANGED <<wlock, wfile, notWriter>>

\* line 98: aiofiles.open(file_path, 'w') creates or truncates the target
WOpenW(c) ==
    /\ wcall[c].pc = "open_w"
    /\ wfile' = [exists |-> TRUE, text |-> <<>>]
    /\ wcall' = [wcall EXCEPT ![c].pc = "write"]
    /\ UNCHANGED <<wlock, notWriter>>

\* line 99: f.write(json.dumps(existing_data, ...))
WWrite(c) ==
    /\ wcall[c].pc = "write"
    /\ wfile' = [wfile EXCEPT !.text = Dumps(wcall[c].existing)]
    /\ wcall' = [wcall EXCEPT ![c].pc = "close"]
    /\ UNCHANGED <<wlock, notWriter>>

Released_Kept(holder) == wlock

\* leaving "async with self.lock": the holder releases the lock, by return
\* or by exception
Released(holder) == IF wlock = holder THEN 0 ELSE wlock

\* the file is closed and the lock released; the call returns
WRelease(c) ==
    /\ wcall[c].pc = "close"
    /\ wlock' = Released(c)
    /\ wcall' = [wcall EXCEPT ![c] = [pc |-> "done", existing |-> <<>>]]
    /\ UNCHANGED <<wfile, notWriter>>

\* an await of the call raises: an I/O error in the read, the open, the
\* write or the close, or CancelledError at any of these suspension points
\* or in the wait for the lock.  The step that raised has had no effect on
\* the target; the with-blocks are left with the exception, and the lock is
\* released if the call holds it.
WRaises(c) ==
    /\ wcall[c].pc \in {"waiting", "read", "open_w", "write", "close"}
    /\ wlock' = Released(c)
    /\ wcall' = [wcall EXCEPT ![c] = [pc |-> "failed", existing |-> <<>>]]
    /\ UNCHANGED <<wfile, notWriter>>

\* the target is absent or empty and no call has started
WriterInit ==
    /\ wlock = 0
    /\ wfile \in {[exists |-> FALSE, text |-> <<>>], [exists |-> TRUE, text |-> <<>>]}
    /\ wcall = [c \in Calls |-> IdleCall]

WriterQuiet ==
    /\ wlock = 0
    /\ wfile = [exists |-> FALSE, text |-> <<>>]
    /\ wcall = [c \in Calls |-> IdleCall]

WriterNext ==
    \/ \E c \in Calls : write_single_item_to_json(c)
    \/ \E c \in Calls : WAcquire(c)
    \/ \E c \in Calls : WRead(c)
    \/ \E c \in Calls : WOpenW(c)
    \/ \E c \in Calls : WWrite(c)
    \/ \E c \in Calls : WRelease(c)

\* calls that may fail or be cancelled
WriterFaultNext ==
    \/ WriterNext
    \/ \E c \in Calls : WRaises(c)

\* the steps of the JSON append c
WStep(c) ==
    WAcquire(c) \/ WRead(c) \/ WOpenW(c) \/ WWrite(c) \/ WRelease(c)

(***************************************************************************)
(* AsyncFileWriter.write_to_csv                                            *)
(* The CSV target is a sequence of rows: the header row, or the data row   *)
(* of call c.  The calls share self.lock with the JSON calls; CsvHolder(c) *)
(* names call c as the holder.  An I/O step may raise OSError instead of   *)
(* taking effect; the two context managers then close the file and release *)
(* the lock.                                                               *)
(***************************************************************************)
HeaderRow == 0

CsvHolder(c) == NumCalls + c

IdleCsv == [pc |-> "idle", file_exists |-> FALSE]

NeedsHeader_Always(file_exists, tell) == TRUE

\* line 70: not file_exists or await f.tell() == 0
NeedsHeader(file_exists, tell) == ~file_exists \/ tell = 0

\* a task calls write_to_csv(item, item_type): the path is computed and the
\* task asks for the lock
write_to_csv(c) ==
    /\ csvcall[c].pc = "idle"
    /\ csvcall' = [csvcall EXCEPT ![c].pc = "waiting"]
    /\ UNCHANGED <<csvfile, writerVars, notCsv>>

\* the lock is granted; line 65: file_exists = os.path.exists(file_path)
CsvAcquire(c) ==
    /\ csvcall[c].pc = "waiting"
    /\ wlock = 0
    /\ wlock' = CsvHolder(c)
    /\ csvcall' = [csvcall EXCEPT ![c] = [pc |-> "open_a",
                                          file_exists |-> csvfile.exists]]
    /\ UNCHANGED <<csvfile, wfile, wcall, notCsv>>

\* lines 66-68: aiofiles.open(file_path, "a") creates the target if absent
\* and positions the stream at its end
CsvOpenA(c) ==
    /\ csvcall[c].pc = "open_a"
    /\ csvfile' = [csvfile EXCEPT !.exists = TRUE]
    /\ csvcall' = [csvcall EXCEPT ![c].pc = "header"]
    /\ UNCHANGED <<writerVars, notCsv>>

\* lines 70-71: the header is written when the target is new or empty
CsvHeader(c) ==
    /\ csvcall[c].pc = "header"
    /\ csvfile' = IF NeedsHeader(csvcall[c].file_exists, Len(csvfile.rows))
                  THEN [csvfile EXCEPT !.rows = Append(@, HeaderRow)]
                  ELSE csvfile
    /\ csvcall' = [csvcall EXCEPT ![c].pc = "row"]
    /\ UNCHANGED <<writerVars, notCsv>>

\* line 72: await writer.writerow(item)
CsvRow(c) ==
    /\ csvcall[c].pc = "row"
    /\ csvfile' = [csvfile EXCEPT !.rows = Append(@, c)]
    /\ csvcall' = [csvcall EXCEPT ![c].pc = "close"]
    /\ UNCHANGED <<writerVars, notCsv>>

\* the file is closed and the lock released; the call returns
CsvRelease(c) ==
    /\ csvcall[c].pc = "close"
    /\ wlock' = Released(CsvHolder(c))
    /\ csvcall' = [csvcall EXCEPT ![c].pc = "done"]
    /\ UNCHANGED <<csvfile, wfile, wcall, notCsv>>

\* opening, tell or a write raises, or the call is cancelled there or in
\* the wait for the lock: the call leaves the with-blocks with the exception
\* and the lock is released if the call holds it
CsvRaises(c) ==
    /\ csvcall[c].pc \in {"waiting", "open_a", "header", "row"}
    /\ wlock' = Released(CsvHolder(c))
    /\ csvcall' = [csvcall EXCEPT ![c].pc = "failed"]
    /\ UNCHANGED <<csvfile, wfile, wcall, notCsv>>

\* the target is absent or empty and no call has started
CsvInit ==
    /\ csvfile \in {[exists |-> e, rows |-> <<>>] : e \in BOOLEAN}
    /\ csvcall = [c \in Calls |-> IdleCsv]

CsvQuiet ==
    /\ csvfile = [exists |-> FALSE, rows |-> <<>>]
    /\ csvcall = [c \in Calls |-> IdleCsv]

CsvNext ==
    \/ \E c \in Calls : write_to_csv(c)
    \/ \E c \in Calls : CsvAcquire(c)
    \/ \E c \in Calls : CsvOpenA(c)
    \/ \E c \in Calls : CsvHeader(c)
    \/ \E c \in Calls : CsvRow(c)
    \/ \E c \in Calls : CsvRelease(c)
    \/ \E c \in Calls : CsvRaises(c)

\* the steps of the CSV append c
CsvStep(c) ==
    CsvAcquire(c) \/ CsvOpenA(c) \/ CsvHeader(c) \/ CsvRow(c) \/ CsvRelease(c)

\* JSON and CSV appends on the one writer, any of which may fail or be
\* cancelled
AppendNext ==
    \/ WriterFaultNext
    \/ CsvNext

(***************************************************************************)
(* XiaoHongShuPublisher.publish_note                                       *)
(* One run over nImages image paths and nTopics topic keywords.  A signed  *)
(* call is _sign_headers followed by _request (3 attempts); an upload is   *)
(* one PUT.                                                                *)
(***************************************************************************)
Msgs == {"m1", "m2"}

NoResp == [kind |-> "none", success |-> "absent", msg |-> "", n |-> 0,
           ids |-> <<>>, token |-> ""]

NoErr == [kind |-> "none", msg |-> ""]

\* what the server may answer to a signed request of a step: a non-2xx
\* status; a 2xx JSON body whose success field is false (with the provider's
\* msg), true or absent, carrying n file ids (permit), n matches (search) or
\* a note id (publish, n = 1) or none (n = 0); or a 2xx body that is not JSON
PayloadMax(step) ==
    IF step = "permit" THEN MaxImages
    ELSE IF step = "search" THEN MaxMatches ELSE 1

Tokens == {"tokA", "tokB"}

\* data.file_ids and data.credential.token of a permit answer with n file
\* ids: any n identifiers, equal ones included, and a token
PermitData(step, n) ==
    IF step = "permit"
    THEN {[ids |-> ids, token |-> t] : ids \in [1..n -> 1..MaxImages], t \in Tokens}
    ELSE {[ids |-> <<>>, token |-> ""]}

Responses(step) ==
    {[NoResp EXCEPT !.kind = "http_error"]}
    \cup {[NoResp EXCEPT !.kind = "json", !.success = "false", !.msg = m] : m \in Msgs}
    \cup UNION {{[kind |-> "json", success |-> sc, msg |-> "", n |-> n,
                  ids |-> d.ids, token |-> d.token] :
                    sc \in {"true", "absent"}, d \in PermitData(step, n)} :
                 n \in 0..PayloadMax(step)}
    \cup {[NoResp EXCEPT !.kind = "non_json"]}

IdleRun == [pc |-> "idle", step |-> "none", idx |-> 0, attempt |-> 0, sig |-> 0,
            nImages |-> 0, nTopics |-> 0, badImage |-> 0, file_ids |-> -1,
            images |-> 0, topics |-> <<>>, stepsOk |-> 0, pending |-> 0,
            slots |-> <<>>, token |-> "", results |-> <<>>, matches |-> <<>>,
            resp |-> NoResp, raised |-> NoErr, err |-> "none", note_id |-> 0]

Req(step, idx, sig) == [step |-> step, idx |-> idx, sig |-> sig, slot |-> 0, token |-> ""]

SlotFor_First(ids, i) == ids[1]

\* upload_images, line 302: file_ids[i]
SlotFor(ids, i) == ids[i]

IsApiFailure_Ignored(r) == FALSE

\* isinstance(data, dict) and data.get("success") is False
IsApiFailure(r) == r.kind = "json" /\ r.success = "false"

\* _request, lines 139-148: the exception the response makes it raise, if any
RaisedBy(r) ==
    IF r.kind = "http_error" THEN [kind |-> "HttpError", msg |-> ""]
    ELSE IF IsApiFailure(r) THEN [kind |-> "ApiError", msg |-> r.msg]
    ELSE NoErr

EnoughSlots_Unchecked(f, k) == TRUE

\* upload_images, line 295: not (len(file_ids) < len(image_paths))
EnoughSlots(f, k) == ~(f < k)

\* an exception leaves publish_note: the run is over
Fail(p, e) ==
    /\ pub' = [p EXCEPT !.pc = "failed", !.err = e]
    /\ UNCHANGED <<signs, reqLog>>

\* a signed call starts: await self._sign_headers(uri, data, method)
StartSigned(p, step, idx) ==
    /\ pub' = [p EXCEPT !.pc = "signing", !.step = step, !.idx = idx, !.attempt = 0,
                        !.sig = 0]
    /\ UNCHANGED <<signs, reqLog>>

\* upload_image(path_i, file_ids[i], token): the image is opened and read,
\* then one PUT is sent
StartUpload(p, i) ==
    IF i > p.file_ids
    THEN Fail([p EXCEPT !.step = "upload", !.idx = i], "IndexError")
    ELSE IF p.badImage = i
    THEN Fail([p EXCEPT !.step = "upload", !.idx = i], "ImageError")
    ELSE /\ pub' = [p EXCEPT !.pc = "put", !.step = "upload", !.idx = i, !.sig = 0,
                             !.pending = @ + 1]
         /\ reqLog' = Append(reqLog, [Req("upload", i, 0) EXCEPT
                                         !.slot = SlotFor(p.slots, i),
                                         !.token = p.token])
         /\ UNCHANGED signs

PickedMatch_Last(n) == n

\* publish_note, line 416: topic_list[0], the first of the n matches
PickedMatch(n) == 1

\* publish_note, lines 411-425: the topic loop, then the publish call
StartTopicsOrPublish(p, j) ==
    IF j <= p.nTopics THEN StartSigned(p, "search", j)
    ELSE StartSigned(p, "publish", 0)

\* _request returned data: what the caller does with it up to its next await
AfterSigned(p, r) ==
    IF p.step = "permit"
    THEN LET q == [p EXCEPT !.file_ids = r.n, !.slots = r.ids, !.token = r.token]
         IN IF EnoughSlots(r.n, p.nImages)
            THEN StartUpload([q EXCEPT !.stepsOk = @ + 1], 1)
            ELSE Fail(q, "InsufficientCredential")
    ELSE IF p.step = "search"
    THEN StartTopicsOrPublish(
             [p EXCEPT !.stepsOk = @ + 1,
                       !.matches = Append(@, r.n),
                       !.topics = IF r.n > 0
                                  THEN Append(@, [keyword |-> p.idx,
                                                  match |-> PickedMatch(r.n)])
                                  ELSE @],
             p.idx + 1)
    ELSE /\ pub' = [p EXCEPT !.pc = "done", !.note_id = r.n, !.stepsOk = @ + 1]
         /\ UNCHANGED <<signs, reqLog>>

AfterPutError_Continue(p) ==
    IF p.idx < p.nImages THEN StartUpload(p, p.idx + 1)
    ELSE StartTopicsOrPublish(p, 1)

\* upload_image, line 267: response.raise_for_status() raises
AfterPutError(p) == Fail(p, "HttpError")

\* a caller runs publish_note(NoteContent(images, topics)): k image paths,
\* m keywords, image bad unreadable (0: all readable)
publish_note(k, m, bad) ==
    /\ pub.pc = "idle"
    /\ LET p == [pub EXCEPT !.nImages = k, !.nTopics = m, !.badImage = bad]
       IN IF k = 0
          THEN Fail(p, "ValueError")
          ELSE StartSigned(p, "permit", 0)
    /\ UNCHANGED notPub

\* sign_func returns: the headers are built and _request sends attempt 1
SignReturns ==
    /\ pub.pc = "signing"
    /\ signs' = signs + 1
    /\ pub' = [pub EXCEPT !.pc = "http", !.sig = signs + 1, !.attempt = 1,
                          !.resp = NoResp, !.raised = NoErr, !.pending = @ + 1]
    /\ reqLog' = Append(reqLog, Req(pub.step, pub.idx, signs + 1))
    /\ UNCHANGED notPub

\* sign_func raises: the exception leaves publish_note
SignRaises ==
    /\ pub.pc = "signing"
    /\ Fail(pub, "SignError")
    /\ UNCHANGED notPub

\* the response to an attempt of _request arrives
HttpResponds(r) ==
    /\ pub.pc = "http"
    /\ r \in Responses(pub.step)
    /\ LET p == [pub EXCEPT !.resp = r, !.raised = RaisedBy(r), !.pending = @ - 1]
       IN IF RaisedBy(r) # NoErr
          THEN IF pub.attempt < RequestMaxAttempts
               THEN /\ pub' = [p EXCEPT !.pc = "backoff"]
                    /\ UNCHANGED <<signs, reqLog>>
               ELSE Fail(p, "RetryError")
          ELSE IF r.kind = "non_json"
          THEN \* _request returns the httpx.Response; result.get raises
               Fail(p, "AttributeError")
          ELSE AfterSigned(p, r)
    /\ UNCHANGED notPub

\* wait_fixed(1) is over: tenacity calls _request again with the same
\* arguments, the headers included
RetryRequest ==
    /\ pub.pc = "backoff"
    /\ pub' = [pub EXCEPT !.pc = "http", !.attempt = @ + 1, !.resp = NoResp,
                          !.raised = NoErr, !.pending = @ + 1]
    /\ reqLog' = Append(reqLog, Req(pub.step, pub.idx, pub.sig))
    /\ UNCHANGED signs
    /\ UNCHANGED notPub

\* the PUT is answered with a 2xx status
PutSucceeds ==
    /\ pub.pc = "put"
    /\ LET p == [pub EXCEPT !.images = @ + 1, !.stepsOk = @ + 1, !.resp = NoResp,
                            !.pending = @ - 1,
                            !.results = Append(@, [local_path |-> pub.idx,
                                                   file_id |-> SlotFor(pub.slots,
                                                                       pub.idx)])]
       IN IF pub.idx < pub.nImages
          THEN StartUpload(p, pub.idx + 1)
          ELSE StartTopicsOrPublish(p, 1)
    /\ UNCHANGED notPub

\* the PUT is answered with another status, or the transport fails
PutFails ==
    /\ pub.pc = "put"
    /\ AfterPutError([pub EXCEPT !.resp = NoResp, !.pending = @ - 1])
    /\ UNCHANGED notPub

PubInit ==
    /\ pub = IdleRun
    /\ signs = 0
    /\ reqLog = <<>>

PubNext ==
    \/ \E k \in 0..MaxImages : \E m \in 0..MaxTopics : \E bad \in 0..k :
          publish_note(k, m, bad)
    \/ SignReturns
    \/ SignRaises
    \/ \E r \in Responses("permit") \cup Responses("search") : HttpResponds(r)
    \/ RetryRequest
    \/ PutSucceeds
    \/ PutFails

(***************************************************************************)
(* HumanBehavior                                                           *)
(* Durations are counted in quarter seconds, and random.uniform(a, b)      *)
(* draws any whole number of quarter seconds from a to b.                  *)
(***************************************************************************)
\* get_delay_config / config.base_config: (min, max) of each category, and
\* CRAWLER_MAX_SLEEP_SEC, the delay used when simulation is disabled
DelayConfig ==
    [page_view |-> <<8, 20>>, action |-> <<2, 6>>, comment |-> <<4, 10>>,
     session_break |-> <<40, 120>>, fallback |-> 8]

\* the (min_sec, max_sec) that callers pass to random_delay
GenericRanges == {<<6, 12>>, <<2, 10>>}

\* the content_length values passed to page_view_delay
Lengths == {0, 500, 2000, 4000, 6000}

\* random.uniform(lo, hi)
Uniform(lo, hi) == lo..hi

ExtraTime_Uncapped(len) == len \div 500

\* extra_time = min(content_length / 2000, 2.0)
ExtraTime(len) == IF len \div 500 < 8 THEN len \div 500 ELSE 8

NoDelay == [cat |-> "none", lo |-> 0, hi |-> 0, len |-> 0, extra |-> 0, value |-> 0]

\* the delay_time a generator of category cat computes before it sleeps:
\* the fallback when disabled, else a uniform draw plus the extra time
Generate(cat, lo, hi, len) ==
    \E v \in IF enabled THEN {u + ExtraTime(len) : u \in Uniform(lo, hi)}
                         ELSE {DelayConfig.fallback} :
        delay' = [cat |-> cat, lo |-> lo, hi |-> hi, len |-> len,
                  extra |-> IF enabled THEN ExtraTime(len) ELSE 0, value |-> v]

random_delay(lo, hi) ==
    /\ Generate("generic", lo, hi, 0)
    /\ UNCHANGED <<enabled, action_count, break_interval, breaking, calls, breaks, notHb>>

page_view_delay(len) ==
    /\ Generate("page_view", DelayConfig.page_view[1], DelayConfig.page_view[2], len)
    /\ UNCHANGED <<enabled, action_count, break_interval, breaking, calls, breaks, notHb>>

action_delay ==
    /\ Generate("action", DelayConfig.action[1], DelayConfig.action[2], 0)
    /\ UNCHANGED <<enabled, action_count, break_interval, breaking, calls, breaks, notHb>>

comment_crawl_delay ==
    /\ Generate("comment", DelayConfig.comment[1], DelayConfig.comment[2], 0)
    /\ UNCHANGED <<enabled, action_count, break_interval, breaking, calls, breaks, notHb>>

session_break_delay ==
    /\ Generate("session_break", DelayConfig.session_break[1],
                DelayConfig.session_break[2], 0)
    /\ UNCHANGED <<enabled, action_count, break_interval, breaking, calls, breaks, notHb>>

ThresholdReached_Late(count, interval) == count > interval

\* if self.action_count >= self.break_interval
ThresholdReached(count, interval) == count >= interval

\* a task calls check_and_take_break(): up to the await of the session break
check_and_take_break(t) ==
    /\ ~breaking[t]
    /\ calls < MaxActions
    /\ calls' = calls + 1
    /\ IF ~enabled
       THEN UNCHANGED <<action_count, breaking, breaks, delay>>
       ELSE /\ action_count' = action_count + 1
            /\ IF ThresholdReached(action_count + 1, break_interval)
               THEN /\ Generate("session_break", DelayConfig.session_break[1],
                                DelayConfig.session_break[2], 0)
                    /\ breaks' = breaks + 1
                    /\ breaking' = [breaking EXCEPT ![t] = TRUE]
               ELSE UNCHANGED <<breaking, breaks, delay>>
    /\ UNCHANGED <<enabled, break_interval, notHb>>

\* the session break of task t is over: self.action_count = 0
BreakOver(t) ==
    /\ breaking[t]
    /\ action_count' = 0
    /\ breaking' = [breaking EXCEPT ![t] = FALSE]
    /\ UNCHANGED <<enabled, break_interval, calls, breaks, delay, notHb>>

\* a caller that awaits each check_and_take_break() before the next one
AwaitedCall(t) ==
    /\ \A u \in Tasks : ~breaking[u]
    /\ check_and_take_break(t)

\* HumanBehavior.__init__
HbInit ==
    /\ enabled \in BOOLEAN
    /\ action_count = 0
    /\ break_interval \in 1..MaxInterval
    /\ breaking = [t \in Tasks |-> FALSE]
    /\ calls = 0
    /\ breaks = 0
    /\ delay = NoDelay

HbQuiet ==
    /\ enabled = TRUE
    /\ action_count = 0
    /\ break_interval = 1
    /\ breaking = [t \in Tasks |-> FALSE]
    /\ calls = 0
    /\ breaks = 0
    /\ delay = NoDelay

\* calls made one after the other
HbSeqNext ==
    \/ \E t \in Tasks : AwaitedCall(t)
    \/ \E t \in Tasks : BreakOver(t)

\* calls made by concurrent tasks
HbNext ==
    \/ \E t \in Tasks : check_and_take_break(t)
    \/ \E t \in Tasks : BreakOver(t)

\* the delay generators called on their own
DelayNext ==
    \/ \E r \in GenericRanges : random_delay(r[1], r[2])
    \/ \E len \in Lengths : page_view_delay(len)
    \/ action_delay
    \/ comment_crawl_delay
    \/ session_break_delay

(***************************************************************************)
(* BrowserLauncher                                                         *)
(* The methods are synchronous: each runs to its return in one step.  A    *)
(* spawned browser is the leader of a process group of its own (os.setsid, *)
(* CREATE_NEW_PROCESS_GROUP) and may have started further processes in it. *)
(* life follows the calls: Unstarted, Launched (spawned, waiting to be     *)
(* ready), Ready, Stopped, or LaunchFailed / NotReady after a failure.     *)
(***************************************************************************)
Procs == 1..MaxLaunches

Unborn == [leader |-> "unborn", group |-> FALSE]

Gone == [leader |-> "exited", group |-> FALSE]

NoCall == [op |-> "none", found |-> "none", sent |-> 0, raised |-> FALSE,
           trace |-> <<>>, error |-> "none"]

Call(op, found, sent) ==
    [op |-> op, found |-> found, sent |-> sent, raised |-> FALSE,
     trace |-> <<>>, error |-> "none"]

\* the processes of a group that may still run once its leader has exited
Survivors(p) == IF p.group THEN BOOLEAN ELSE {FALSE}

AlreadyExited_Unchecked(p) == FALSE

\* process.poll() is not None
AlreadyExited(p) == p.leader = "exited"

\* launch_browser: subprocess.Popen raises, or the process is spawned and
\* self.browser_process refers to it
launch_browser ==
    /\ \E k \in Procs :
          /\ proc[k] = Unborn
          /\ \A j \in Procs : j < k => proc[j] # Unborn
          /\ \/ /\ life' = "LaunchFailed"
                /\ last' = [Call("launch_browser", "none", 0) EXCEPT !.raised = TRUE]
                /\ UNCHANGED <<browser_process, proc>>
             \/ /\ \E g \in BOOLEAN :
                      proc' = [proc EXCEPT ![k] = [leader |-> "running", group |-> g]]
                /\ browser_process' = k
                /\ life' = "Launched"
                /\ last' = Call("launch_browser", "none", 0)
    /\ UNCHANGED <<system, notBl>>

\* wait_for_browser_ready(debug_port): True when the connect succeeds, which
\* takes a running browser listening on the port; False after the timeout
wait_for_browser_ready ==
    /\ \/ /\ \E k \in Procs : proc[k].leader = "running"
          /\ life' = "Ready"
          /\ last' = Call("wait_for_browser_ready", "ready", 0)
       \/ /\ life' = "NotReady"
          /\ last' = Call("wait_for_browser_ready", "timeout", 0)
    /\ UNCHANGED <<browser_process, proc, system, notBl>>

\* one execution of lines 290-322: the steps that returned, in order, the
\* process afterwards, and the exception that left the try block ("none" if
\* none did)
Run(trace, after, error) == [trace |-> trace, after |-> after, error |-> error]

Signals == {"term_group", "term_leader", "kill_group", "kill_tree"}

SignalsSent(trace) == Cardinality({k \in 1..Len(trace) : trace[k] \in Signals})

\* lines 307-322: os.getpgid; os.killpg(pgid, SIGTERM), whose
\* ProcessLookupError is handled at 310; process.wait(timeout=5); after
\* TimeoutExpired os.killpg(pgid, SIGKILL) and a second wait
PosixRuns(p) ==
    {Run(<<>>, p, e) : e \in {"ProcessLookupError", "OSError"}}
    \cup {Run(<<"getpgid">>, Gone, "none"), Run(<<"getpgid">>, p, "OSError")}
    \cup {Run(<<"getpgid", "term_group", "wait_ok">>,
              [leader |-> "exited", group |-> g], "none") : g \in Survivors(p)}
    \cup {Run(<<"getpgid", "term_group", "wait_timeout">>, Gone, "ProcessLookupError"),
          Run(<<"getpgid", "term_group", "wait_timeout">>, p, "OSError"),
          Run(<<"getpgid", "term_group", "wait_timeout", "kill_group", "wait_ok">>,
              Gone, "none"),
          Run(<<"getpgid", "term_group", "wait_timeout", "kill_group", "wait_timeout">>,
              p, "TimeoutExpired")}

\* lines 291-305: process.terminate(); process.wait(timeout=5); after
\* TimeoutExpired taskkill /F /T /PID and a second wait
WindowsRuns(p) ==
    {Run(<<>>, p, "OSError")}
    \cup {Run(<<"term_leader", "wait_ok">>,
              [leader |-> "exited", group |-> g], "none") : g \in Survivors(p)}
    \cup {Run(<<"term_leader", "wait_timeout">>, p, "OSError"),
          Run(<<"term_leader", "wait_timeout", "kill_tree", "wait_ok">>, Gone, "none"),
          Run(<<"term_leader", "wait_timeout", "kill_tree", "wait_timeout">>,
              p, "TimeoutExpired")}

\* lines 290-322 on a running process p, by platform
Terminations(p) == IF system = "Windows" THEN WindowsRuns(p) ELSE PosixRuns(p)

Caught_LookupOnly(e) == e = "ProcessLookupError"

\* line 325: except Exception
Caught(e) == e \in {"ProcessLookupError", "OSError", "TimeoutExpired"}

\* cleanup()
cleanup ==
    /\ IF browser_process = 0
       THEN /\ last' = Call("cleanup", "none", 0)
            /\ UNCHANGED <<browser_process, proc, life>>
       ELSE IF AlreadyExited(proc[browser_process])
       THEN /\ browser_process' = 0
            /\ life' = "Stopped"
            /\ last' = Call("cleanup", "exited", 0)
            /\ UNCHANGED proc
       ELSE \E o \in Terminations(proc[browser_process]) :
               /\ proc' = [proc EXCEPT ![browser_process] = o.after]
               /\ browser_process' = 0
               /\ life' = "Stopped"
               /\ last' = [op |-> "cleanup", found |-> proc[browser_process].leader,
                           sent |-> SignalsSent(o.trace),
                           raised |-> o.error # "none" /\ ~Caught(o.error),
                           trace |-> o.trace, error |-> o.error]
    /\ UNCHANGED <<system, notBl>>

\* the operating system: the browser exits on its own (closed, crashed)
LeaderExits(k) ==
    /\ proc[k].leader = "running"
    /\ \E g \in Survivors(proc[k]) :
          proc' = [proc EXCEPT ![k] = [leader |-> "exited", group |-> g]]
    /\ UNCHANGED <<browser_process, life, last, system, notBl>>

\* BrowserLauncher.__init__
BlInit ==
    /\ browser_process = 0
    /\ proc = [k \in Procs |-> Unborn]
    /\ life = "Unstarted"
    /\ last = NoCall
    /\ system \in {"Windows", "Posix"}

BlQuiet ==
    /\ browser_process = 0
    /\ proc = [k \in Procs |-> Unborn]
    /\ life = "Unstarted"
    /\ last = NoCall
    /\ system = "Posix"

BlNext ==
    \/ launch_browser
    \/ wait_for_browser_ready
    \/ cleanup
    \/ \E k \in Procs : LeaderExits(k)

(***************************************************************************)
(* XiaoHongShuPublisher._build_desc_with_topics                            *)
(* A text is a sequence of characters; "M" stands for TOPIC_MARKER and "T" *)
(* for the literal [topic].                                                  *)
(***************************************************************************)
RECURSIVE SeqsUpTo(_, _)
SeqsUpTo(S, n) ==
    IF n = 0 THEN {<<>>}
    ELSE LET shorter == SeqsUpTo(S, n - 1)
         IN shorter \cup {Append(x, c) : x \in shorter, c \in S}

\* content.desc as the caller wrote it
Descriptions == SeqsUpTo({"a", "b", "#"}, MaxDescLen)

\* TopicInfo.name of the topics the search resolved
TopicNames == {<<"a">>, <<"b">>, <<"a", "b">>}

\* sub in text
Contains(text, sub) ==
    \E i \in 1..(Len(text) - Len(sub) + 1) : SubSeq(text, i, i + Len(sub) - 1) = sub

\* f"{TOPIC_MARKER}#{topic.name}[topic]#{TOPIC_MARKER}"
TagText(name) == <<"M", "#">> \o name \o <<"T", "#", "M">>

AlreadyPresent_Never(text, name) == FALSE

\* not (f"#{topic.name}" not in result)
AlreadyPresent(text, name) == Contains(text, <<"#">> \o name)

\* the loop of _build_desc_with_topics from result onwards
RECURSIVE build_desc_with_topics(_, _)
build_desc_with_topics(result, topics) ==
    IF topics = <<>> THEN result
    ELSE build_desc_with_topics(
             IF AlreadyPresent(result, Head(topics)) THEN result
             ELSE result \o <<" ">> \o TagText(Head(topics)),
             Tail(topics))

\* _build_note_payload, lines 335-342: hash_tag gets one entry per element of
\* topics, in order; an entry is known by its name
HashTags(topics) == [k \in 1..Len(topics) |-> topics[k]]

NoComposition == [stage |-> "none", desc |-> <<>>, topics |-> <<>>, once |-> <<>>,
                  twice |-> <<>>, hash_tag |-> <<>>]

\* publish_note, lines 419-423: desc = self._build_desc_with_topics(
\* content.desc, topics), then payload = self._build_note_payload(title,
\* desc, images, topics)
Compose(d, T) ==
    /\ composition.stage = "none"
    /\ composition' = [stage |-> "composed", desc |-> d, topics |-> T,
                       once |-> build_desc_with_topics(d, T), twice |-> <<>>,
                       hash_tag |-> HashTags(T)]
    /\ UNCHANGED notDesc

\* the composed description is composed with the same topics again
Recompose ==
    /\ composition.stage = "composed"
    /\ composition' = [composition EXCEPT
           !.stage = "recomposed",
           !.twice = build_desc_with_topics(composition.once, composition.topics)]
    /\ UNCHANGED notDesc

DescInit == composition = NoComposition

DescNext ==
    \/ \E d \in Descriptions : \E T \in SeqsUpTo(TopicNames, MaxTopics) : Compose(d, T)
    \/ Recompose

(***************************************************************************)
(* api/routers/publisher.py: upload_image, publish_note,                   *)
(* delete_uploaded_image                                                   *)
(* The handlers are coroutines of one event loop; a handler runs without   *)
(* interruption between two awaits.  image_ids is taken as a set: the      *)
(* cleanup loop skips an id it has already removed.                        *)
(***************************************************************************)
FileIds == 1..NumFileIds

TmpFiles == 1..MaxUploads

Registered == {i \in FileIds : uploaded_images[i] # 0}

CleansUp_Always(outcome) == TRUE

\* publish_note, lines 282-299: the cleanup loop follows the awaited
\* publisher call inside the try block, so it runs only if that call returned
CleansUp(outcome) == outcome = "returned"

\* lines 290-299 and 324-331: the entries of ids are removed and their
\* files unlinked (unlinks: os.unlink succeeds; its exception is swallowed)
RemoveEntries(ids, by, ok, unlinks) ==
    LET hit == ids \cap Registered
    IN /\ uploaded_images' = [i \in FileIds |-> IF i \in hit THEN 0
                                                ELSE uploaded_images[i]]
       /\ tmpfiles' = IF unlinks THEN tmpfiles \ {uploaded_images[i] : i \in hit}
                      ELSE tmpfiles
       /\ gone' = gone \cup {[id |-> i, file |-> uploaded_images[i], by |-> by,
                               ok |-> ok, unlinked |-> unlinks /\
                                          uploaded_images[i] \in tmpfiles] : i \in hit}

\* POST /upload, lines 189-195: the body is read and written to a new
\* temporary file (delete=False); the handler then awaits the permit
upload_image ==
    /\ tmpcount < MaxUploads
    /\ tmpcount' = tmpcount + 1
    /\ tmpfiles' = tmpfiles \cup {tmpcount + 1}
    /\ uploading' = uploading \cup {tmpcount + 1}
    /\ UNCHANGED <<uploaded_images, publishing, consumed, gone, notApi>>

\* lines 197-221: permit and PUT succeeded; the entry of the returned
\* file_id is written
UploadReturns(f, i) ==
    /\ f \in uploading
    /\ uploading' = uploading \ {f}
    /\ uploaded_images' = [uploaded_images EXCEPT ![i] = f]
    /\ UNCHANGED <<tmpfiles, tmpcount, publishing, consumed, gone, notApi>>

\* lines 222-228: the permit or the PUT raised; the handler answers 500 and
\* leaves the temporary file in place
UploadRaises(f) ==
    /\ f \in uploading
    /\ uploading' = uploading \ {f}
    /\ UNCHANGED <<uploaded_images, tmpfiles, tmpcount, publishing, consumed, gone, notApi>>

\* POST /publish, lines 249-282: every image id has an entry (else 400);
\* the images of the request are taken from the entries and the handler
\* awaits the publisher
api_publish_note(ids) ==
    /\ ids # {}
    /\ ids \subseteq Registered
    /\ \A r \in publishing : r.ids # ids
    /\ publishing' = publishing \cup
           {[ids |-> ids, files |-> {uploaded_images[i] : i \in ids}]}
    /\ UNCHANGED <<uploaded_images, tmpfiles, tmpcount, uploading, consumed, gone, notApi>>

\* lines 282-309: the publisher call returned, or raised (answer 500)
PublishEnds(ids, outcome, unlinks) ==
    /\ \E r \in publishing :
          /\ r.ids = ids
          /\ publishing' = publishing \ {r}
          /\ consumed' = IF outcome = "returned"
                          THEN [f \in TmpFiles |-> IF f \in r.files THEN consumed[f] + 1
                                                   ELSE consumed[f]]
                          ELSE consumed
    /\ IF CleansUp(outcome)
       THEN RemoveEntries(ids, "publish", outcome = "returned", unlinks)
       ELSE UNCHANGED <<uploaded_images, tmpfiles, gone>>
    /\ UNCHANGED <<tmpcount, uploading, notApi>>

\* DELETE /upload/{file_id}, lines 313-333 (404 when the id has no entry)
delete_uploaded_image(i, unlinks) ==
    /\ i \in Registered
    /\ RemoveEntries({i}, "delete", TRUE, unlinks)
    /\ UNCHANGED <<tmpcount, uploading, publishing, consumed, notApi>>

ApiInit ==
    /\ uploaded_images = [i \in FileIds |-> 0]
    /\ tmpfiles = {}
    /\ tmpcount = 0
    /\ uploading = {}
    /\ publishing = {}
    /\ consumed = [f \in TmpFiles |-> 0]
    /\ gone = {}

ApiNext ==
    \/ upload_image
    \/ \E f \in TmpFiles : \E i \in FileIds : UploadReturns(f, i)
    \/ \E f \in TmpFiles : UploadRaises(f)
    \/ \E ids \in SUBSET FileIds : api_publish_note(ids)
    \/ \E ids \in SUBSET FileIds : \E o \in {"returned", "raised"} :
          \E u \in BOOLEAN : PublishEnds(ids, o, u)
    \/ \E i \in FileIds : \E u \in BOOLEAN : delete_uploaded_image(i, u)

(***************************************************************************)
(* BrowserLauncher.find_available_port                                     *)
(* The call is a function of start_port and of the ports that are free on  *)
(* the host while it runs; a step is one turn of its loop.                 *)
(***************************************************************************)
StartPorts == {CDP_DEBUG_PORT, MaxPort - PortAttempts + 1, MaxPort - 1, MaxPort}

\* the free ports are drawn among these offsets from start_port
Offsets == {0, 1, 2, PortAttempts - 2, PortAttempts - 1, PortAttempts}

NoOutcome == [kind |-> "none", port |-> 0]

Returned(port) == [kind |-> "port", port |-> port]

Raised(kind) == [kind |-> kind, port |-> 0]

\* line 107: while port < start_port + 100
WithinWindow(port, start_port) == port < start_port + PortAttempts

\* one turn of the loop of lines 106-115: s.bind(("localhost", port)) returns
\* for a free port, raises OSError for a port in use (caught: port += 1) and
\* OverflowError for a number that is not a port (not caught); line 115
\* raises RuntimeError once the window is used up
find_available_port ==
    /\ probe.outcome = NoOutcome
    /\ probe' =
          IF WithinWindow(probe.port, probe.start_port)
          THEN IF probe.port < 0 \/ probe.port > MaxPort
               THEN [probe EXCEPT !.outcome = Raised("OverflowError")]
               ELSE IF probe.port \in probe.free
               THEN [probe EXCEPT !.outcome = Returned(probe.port)]
               ELSE [probe EXCEPT !.port = @ + 1]
          ELSE [probe EXCEPT !.outcome = Raised("RuntimeError")]
    /\ UNCHANGED notPort

\* line 106: port = start_port
PortInit ==
    probe \in {[start_port |-> s, free |-> {s + o : o \in O}, port |-> s,
                outcome |-> NoOutcome] : s \in StartPorts, O \in SUBSET Offsets}

PortQuiet ==
    probe = [start_port |-> CDP_DEBUG_PORT, free |-> {}, port |-> CDP_DEBUG_PORT,
             outcome |-> NoOutcome]

PortNext == find_available_port

(***************************************************************************)
(* BrowserLauncher.wait_for_browser_ready                                  *)
(* Time is counted in half seconds.  A turn of the loop is one connect     *)
(* attempt (answered at once, or given up after settimeout(1)) followed by *)
(* time.sleep(0.5).  The debug port starts to accept connections when the  *)
(* browser gets that far, or never.                                        *)
(***************************************************************************)
ConnectResults == {"ok", "refused", "timed_out", "raised"}

\* s.settimeout(1): a connect that is not answered takes one second
ConnectTime(r) == IF r = "timed_out" THEN 2 ELSE 0

Connected_Any(r) == TRUE

\* line 226: result == 0
Connected(r) == r = "ok"

\* line 221: time.time() - start_time < timeout
StillWaiting(r) == r.time - r.start_time < 2 * r.timeout

\* one evaluation of the loop condition and, if it holds, one turn of the
\* loop (lines 221-234); else lines 236-239
ReadyPoll(r) ==
    /\ ready.pc = "polling"
    /\ r = "ok" => ready.listening
    /\ ready' =
          IF StillWaiting(ready)
          THEN IF Connected(r)
               THEN [ready EXCEPT !.pc = "returned", !.answer = TRUE,
                                  !.connects = @ + 1, !.connected = (r = "ok"),
                                  !.time = @ + ConnectTime(r)]
               ELSE [ready EXCEPT !.connects = @ + 1,
                                  !.time = @ + ConnectTime(r) + 1]
          ELSE [ready EXCEPT !.pc = "returned", !.answer = FALSE]
    /\ UNCHANGED notReady

\* the browser starts to listen on the debug port
DebugPortOpens ==
    /\ ready.pc = "polling"
    /\ ~ready.listening
    /\ ready' = [ready EXCEPT !.listening = TRUE]
    /\ UNCHANGED notReady

\* line 220: start_time = time.time()
ReadyStart(t, l) ==
    [pc |-> "polling", timeout |-> t, start_time |-> 0, time |-> 0, listening |-> l,
     connects |-> 0, connected |-> FALSE, answer |-> FALSE]

ReadyInit == ready \in {ReadyStart(t, l) : t \in 0..MaxReadyTimeout, l \in BOOLEAN}

ReadyQuiet == ready = ReadyStart(0, FALSE)

ReadyNext ==
    \/ \E r \in ConnectResults : ReadyPoll(r)
    \/ DebugPortOpens

(***************************************************************************)
(* Specifications                                                          *)
(***************************************************************************)
InitPool == PoolInit /\ WriterQuiet /\ PubInit /\ HbQuiet /\ BlQuiet /\ DescInit /\ CsvQuiet /\ ApiInit /\ PortQuiet /\ ReadyQuiet /\ MixinQuiet

InitWriter == WriterInit /\ PoolQuiet /\ PubInit /\ HbQuiet /\ BlQuiet /\ DescInit /\ CsvQuiet /\ ApiInit /\ PortQuiet /\ ReadyQuiet /\ MixinQuiet

InitCsv == CsvInit /\ WriterQuiet /\ PoolQuiet /\ PubInit /\ HbQuiet /\ BlQuiet /\ DescInit /\ ApiInit /\ PortQuiet /\ ReadyQuiet /\ MixinQuiet

InitApi == PoolQuiet /\ WriterQuiet /\ PubInit /\ HbQuiet /\ BlQuiet /\ DescInit /\ CsvQuiet /\ ApiInit /\ PortQuiet /\ ReadyQuiet /\ MixinQuiet

InitPort == PortInit /\ PoolQuiet /\ WriterQuiet /\ PubInit /\ HbQuiet /\ BlQuiet /\ DescInit /\ CsvQuiet /\ ApiInit /\ ReadyQuiet /\ MixinQuiet

InitReady == ReadyInit /\ PoolQuiet /\ WriterQuiet /\ PubInit /\ HbQuiet /\ BlQuiet /\ DescInit /\ CsvQuiet /\ ApiInit /\ PortQuiet /\ MixinQuiet

InitPublisher == PubInit /\ PoolQuiet /\ WriterQuiet /\ HbQuiet /\ BlQuiet /\ DescInit /\ CsvQuiet /\ ApiInit /\ PortQuiet /\ ReadyQuiet /\ MixinQuiet

InitMixin == MixinInit /\ WriterQuiet /\ PubInit /\ HbQuiet /\ BlQuiet /\ DescInit /\ CsvQuiet /\ ApiInit /\ PortQuiet /\ ReadyQuiet

SpecMixin == InitMixin /\ [][MixinNext]_vars

SpecPool == InitPool /\ [][PoolNext]_vars

\* every await inside get_proxy (the provider call, the validation probe,
\* tenacity's sleep) completes: a call that can go on does go on
SpecPoolFair ==
    InitPool /\ [][PoolNext]_vars /\ \A t \in Tasks : WF_vars(TaskStep(t))

SpecPoolClock == InitPool /\ [][PoolClockNext]_vars

InitExpiry == ExpiryInit /\ WriterQuiet /\ PubInit /\ HbQuiet /\ BlQuiet /\ DescInit /\ CsvQuiet /\ ApiInit /\ PortQuiet /\ ReadyQuiet /\ MixinQuiet

InitBehavior == HbInit /\ PoolQuiet /\ WriterQuiet /\ PubInit /\ BlQuiet /\ DescInit /\ CsvQuiet /\ ApiInit /\ PortQuiet /\ ReadyQuiet /\ MixinQuiet

InitBrowser == BlInit /\ PoolQuiet /\ WriterQuiet /\ PubInit /\ HbQuiet /\ DescInit /\ CsvQuiet /\ ApiInit /\ PortQuiet /\ ReadyQuiet /\ MixinQuiet

SpecBrowser == InitBrowser /\ [][BlNext]_vars

InitDesc == DescInit /\ PoolQuiet /\ WriterQuiet /\ PubInit /\ HbQuiet /\ BlQuiet /\ CsvQuiet /\ ApiInit /\ PortQuiet /\ ReadyQuiet /\ MixinQuiet

SpecDesc == InitDesc /\ [][DescNext]_vars

SpecBehaviorSeq == InitBehavior /\ [][HbSeqNext]_vars

SpecBehavior == InitBehavior /\ [][HbNext]_vars

SpecDelay == InitBehavior /\ [][DelayNext]_vars

SpecExpiry == InitExpiry /\ [][ExpiryNext]_vars

SpecWriter == InitWriter /\ [][WriterNext]_vars

SpecCsv == InitCsv /\ [][CsvNext]_vars

SpecWriterFaults == InitWriter /\ [][WriterFaultNext]_vars

InitAppend == WriterInit /\ CsvInit /\ PoolQuiet /\ PubInit /\ HbQuiet /\ BlQuiet /\ DescInit /\ ApiInit /\ PortQuiet /\ ReadyQuiet /\ MixinQuiet

\* the scheduler runs every task that is ready: an append that can take its
\* next step takes it
SpecAppend ==
    /\ InitAppend
    /\ [][AppendNext]_vars
    /\ \A c \in Calls : WF_vars(WStep(c)) /\ WF_vars(CsvStep(c))

SpecApi == InitApi /\ [][ApiNext]_vars

SpecPort == InitPort /\ [][PortNext]_vars

\* the call runs in its thread until it returns
SpecReady ==
    InitReady /\ [][ReadyNext]_vars /\ WF_vars(\E r \in ConnectResults : ReadyPoll(r))

SpecPublisher == InitPublisher /\ [][PubNext]_vars

(***************************************************************************)
(* Properties of ProxyIpPool                                               *)
(***************************************************************************)
RECURSIVE SumUpTo(_, _)
SumUpTo(f, n) == IF n = 0 THEN 0 ELSE f[n] + SumUpTo(f, n - 1)

DrawnSinceLoad == SumUpTo(drawn, NumEndpoints)

IssuedSinceLoad == SumUpTo(issued, NumEndpoints)

\* C1: uniqueness until reload.  Between two consecutive loads no endpoint is
\* drawn from the list more than once, and no endpoint that get_proxy()
\* returned from that list is returned by a later get_proxy() again, whatever
\* the interleaving of the calls.
C1_UniqueUntilReload ==
    \A i \in EndpointIds : drawn[i] <= 1 /\ issued[i] <= 1

\* two calls, validated concurrently, have returned two endpoints of one load
C1_Witness ==
    /\ enable_validate_ip
    /\ \E i, j \in EndpointIds : i # j /\ issued[i] = 1 /\ issued[j] = 1

\* C2: access to proxy_list and current_proxy is mutually exclusive; in
\* particular two tasks that find the pool empty never both run a refill
\* (never both wait inside _reload_proxies).
C2_ExclusiveRefill ==
    \A t1, t2 \in Tasks :
        t1 # t2 => ~(task[t1].pc = "reload" /\ task[t2].pc = "reload")

\* C8: every endpoint returned by get_or_refresh_proxy(b) is non-expired when
\* it is returned (now < expiry - b).
C8_ReturnedNotExpired ==
    \A t \in Tasks :
        (task[t].op = "get_or_refresh" /\ task[t].ret.kind = "ok") => task[t].ret.fresh

\* a load is triggered: some task enters _reload_proxies in this step
LoadTriggered(t) == task[t].pc # "reload" /\ task'[t].pc = "reload"

\* C9: after a load at most ip_pool_count endpoints are drawn, hence at most
\* ip_pool_count get_proxy() calls succeed on that load's list, before the
\* next load; and a load is triggered only by a get_proxy() attempt that
\* finds the pool empty.
C9_AtMostNPerLoad ==
    /\ [](DrawnSinceLoad <= ip_pool_count /\ IssuedSinceLoad <= ip_pool_count)
    /\ [][\A t \in Tasks : LoadTriggered(t) => Len(proxy_list) = 0]_vars

\* the pool of size N has served N calls and the next call is refilling it
C9_Witness ==
    /\ ip_pool_count = MaxPoolCount
    /\ IssuedSinceLoad = ip_pool_count
    /\ \E t \in Tasks : task[t].pc = "reload"

GivesUp(t) == task[t].pc # "idle" /\ task'[t].pc = "idle" /\ task'[t].ret.kind = "RetryError"

Asks(b) == checked' # checked /\ checked'.b = b

\* C12: is_current_proxy_expired(b) answers true exactly when there is no
\* current endpoint or now >= expiry - b, for every buffer b >= 0, and the
\* call leaves the list and the current endpoint as they were.
C12_ExpiredIff ==
    [][\A b \in 0..MaxBuffer :
          Asks(b) => /\ checked'.answer <=> (\/ current_proxy = NoEndpoint
                                             \/ now >= current_proxy.expiry - b)
                     /\ UNCHANGED <<proxy_list, current_proxy>>]_vars

\* asked with buffer 1 exactly one second before the current endpoint's
\* expiry: the answer is true
C12_Witness ==
    /\ checked.asked
    /\ checked.b = 1
    /\ current_proxy # NoEndpoint
    /\ checked.at = current_proxy.expiry - 1
    /\ checked.answer

\* C11: load_proxies() is never retried inside the pool.  A get_proxy() call
\* that has already asked the provider for endpoints never asks again, and a
\* call whose fetch did not give it an endpoint ends there (the provider error
\* reaches the caller) instead of waiting for another attempt.
C11_OneFetchPerCall ==
    /\ [][\A t \in Tasks : LoadTriggered(t) => ~task[t].fetched]_vars
    /\ [][\A t \in Tasks : task[t].pc = "reload" => task'[t].pc # "backoff"]_vars

(***************************************************************************)
(* Properties of HumanBehavior                                             *)
(***************************************************************************)
NoneBreaking == \A t \in Tasks : ~breaking[t]

\* what break_interval awaited calls on a fresh scheduler lead to: no break
\* before the last of them, one break on it, and the counter at 0 after it
OneBreakOnTheLast ==
    /\ calls < break_interval => (breaks = 0 /\ action_count = calls)
    /\ calls = break_interval => (breaks = 1 /\ (NoneBreaking => action_count = 0))

\* C13 as stated: calling check_and_take_break() exactly break_interval times
\* on a fresh scheduler triggers exactly one session-break wait, on the last
\* of those calls, and leaves action_count at 0.
C13_OneBreakPerInterval == OneBreakOnTheLast

\* C13 as amended: the same, on a scheduler whose simulation is enabled; a
\* disabled scheduler counts nothing and never takes a break.
C13_OneBreakWhenEnabled ==
    /\ enabled => OneBreakOnTheLast
    /\ ~enabled => (breaks = 0 /\ action_count = 0)

\* the last of MaxInterval calls took the break, which is over
C13_Witness ==
    /\ enabled
    /\ break_interval = MaxInterval
    /\ calls = break_interval
    /\ breaks = 1
    /\ NoneBreaking
    /\ action_count = 0

\* C14: concurrent callers update the counter under mutual exclusion: every
\* call is counted once and one session break is taken per break_interval
\* calls, also for calls that arrive while a break is being waited out.
C14_ExclusiveCounter ==
    enabled => breaks = calls \div break_interval

\* C15 as stated: with simulation enabled every generated delay lies within
\* its category's configured [min, max]; disabled, it is the fixed fallback.
C15_WithinMinMax ==
    delay.cat # "none" =>
        IF enabled THEN delay.lo <= delay.value /\ delay.value <= delay.hi
        ELSE delay.value = DelayConfig.fallback

\* C15 as amended: the page-view delay lies within [min + extra, max + extra],
\* where extra = min(content_length / 2000, 2.0) seconds (so at most 2
\* seconds above max); every other category stays within [min, max]; and
\* disabled, every category gives the fixed fallback.
C15_WithinMinMaxPlusExtra ==
    delay.cat # "none" =>
        IF enabled
        THEN LET e == IF delay.cat # "page_view" THEN 0
                      ELSE IF delay.len >= 4000 THEN 8 ELSE delay.len \div 500
             IN delay.lo + e <= delay.value /\ delay.value <= delay.hi + e
        ELSE delay.value = DelayConfig.fallback

\* a long page was viewed for the longest time: max plus the capped 2 seconds
C15_Witness ==
    /\ enabled
    /\ delay.cat = "page_view"
    /\ delay.len = 6000
    /\ delay.value = DelayConfig.page_view[2] + 8

(***************************************************************************)
(* Properties of BrowserLauncher                                           *)
(***************************************************************************)
\* C16: cleanup() is idempotent.  A cleanup() that finds no process handle (a
\* second cleanup) or a handle whose process has already exited raises
\* nothing, sends no signal, and leaves browser_process as None.
C16_CleanupIdempotent ==
    (last.op = "cleanup" /\ last.found \in {"none", "exited"}) =>
        /\ ~last.raised
        /\ last.sent = 0
        /\ browser_process = 0

\* cleanup() was called again on a manager that an earlier cleanup() had
\* stopped, and found no handle
C16_Witness ==
    /\ life = "Stopped"
    /\ last = Call("cleanup", "none", 0)
    /\ \E k \in Procs : proc[k].leader = "exited"

\* C17: after cleanup() returns, no browser process launched by this manager
\* is running, and neither is anything else of its process group.
C17_NothingLeftRunning ==
    last.op = "cleanup" =>
        \A k \in Procs : proc[k].leader # "running" /\ ~proc[k].group

\* the moves the lifecycle Unstarted -> Detecting -> Launching ->
\* WaitingReady -> Ready -> Terminating -> Stopped allows, a failure
\* (LaunchFailed, NotReady) being final but for the cleanup
LifecycleMoves ==
    {<<"Unstarted", "Launched">>, <<"Unstarted", "LaunchFailed">>,
     <<"Launched", "Ready">>, <<"Launched", "NotReady">>,
     <<"Launched", "Stopped">>, <<"Ready", "Stopped">>,
     <<"LaunchFailed", "Stopped">>, <<"NotReady", "Stopped">>}

\* C18: the lifecycle only moves along Unstarted -> ... -> Ready -> ... ->
\* Stopped: the manager becomes Ready only from a launch followed by a
\* successful readiness poll, and no process is spawned on a manager that is
\* past its launch, has reached Stopped, or whose launch failed.
C18_LifecycleOrder ==
    /\ [][life' # life => <<life, life'>> \in LifecycleMoves]_vars
    /\ [][proc' # proc /\ last'.op = "launch_browser" => life = "Unstarted"]_vars

(***************************************************************************)
(* Properties of _build_desc_with_topics                                   *)
(***************************************************************************)
\* how often sub occurs in text
Occurrences(text, sub) ==
    Cardinality({i \in 1..(Len(text) - Len(sub) + 1) :
                    SubSeq(text, i, i + Len(sub) - 1) = sub})

\* C19: description composition is idempotent: composing the topics into the
\* already composed description returns it unchanged, for every description
\* and topic list; and for a description without hashtag text and a single
\* topic the composed description holds exactly one marker-wrapped
\* occurrence of that topic.
C19_ComposeIdempotent ==
    /\ composition.stage = "recomposed" => composition.twice = composition.once
    /\ (/\ composition.stage # "none"
        /\ ~Contains(composition.desc, <<"#">>)
        /\ Len(composition.topics) = 1)
       => Occurrences(composition.once, TagText(composition.topics[1])) = 1

\* two topics were appended to a plain description, which was then composed
\* again
C19_Witness ==
    /\ composition.stage = "recomposed"
    /\ composition.desc = <<"a", "b">>
    /\ composition.topics = <<<<"a">>, <<"b">>>>
    /\ Len(composition.once) = Len(composition.desc) + 2 * 7

(***************************************************************************)
(* Properties of AsyncFileWriter                                           *)
(***************************************************************************)
DoneCalls == {c \in Calls : wcall[c].pc = "done"}

\* the records of a sequence, and whether each occurs once
Holds(list, set) ==
    /\ Len(list) = Cardinality(set)
    /\ {list[k] : k \in 1..Len(list)} = set

\* C3: whenever no call is inside the locked section, the target holds a
\* well-formed JSON array with exactly the records of the calls that have
\* completed, each once (so N concurrent calls leave exactly N records); until
\* the first call completes the target is still absent or empty.
C3_ExactlyTheRecords ==
    wlock = 0 =>
        IF DoneCalls = {}
        THEN wfile.text = <<>>
        ELSE /\ wfile.exists
             /\ IsArrayText(wfile.text)
             /\ Holds(ArrayItems(wfile.text), DoneCalls)

\* all the concurrent calls have completed
C3_Witness ==
    /\ DoneCalls = Calls
    /\ Len(wfile.text) = 2 * NumCalls + 1

(***************************************************************************)
(* Properties of XiaoHongShuPublisher                                      *)
(***************************************************************************)
SignedRequests == {i \in 1..Len(reqLog) : reqLog[i].sig # 0}

\* C4: each HTTP attempt of a signed call carries a signature computed for
\* that attempt: the signer has run once per attempt sent, and no signature
\* is sent on two attempts.
C4_SignaturePerAttempt ==
    /\ signs = Cardinality(SignedRequests)
    /\ \A i, j \in SignedRequests : i # j => reqLog[i].sig # reqLog[j].sig

HasRequest(step) == \E i \in 1..Len(reqLog) : reqLog[i].step = step

\* C5: when the credential response holds fewer slot identifiers than there
\* are assets, the run fails with the insufficient-credential error, no
\* upload PUT has been sent and no publish call is issued.
C5_InsufficientCredential ==
    (pub.file_ids >= 0 /\ pub.file_ids < pub.nImages) =>
        /\ pub.pc = "failed"
        /\ pub.err = "InsufficientCredential"
        /\ ~HasRequest("upload")
        /\ ~HasRequest("publish")

\* two assets were requested and the credential response held one slot
C5_Witness ==
    /\ pub.nImages = 2
    /\ pub.file_ids = 1
    /\ pub.pc = "failed"

\* C6: a 2xx response whose JSON body carries success:false is never handed
\* back as the result of the signed call: the attempt raises the API error
\* with the provider's msg, so the call is waiting to retry or has failed.
C6_SuccessFalseIsApiError ==
    (pub.resp.kind = "json" /\ pub.resp.success = "false") =>
        /\ pub.pc \in {"backoff", "failed"}
        /\ pub.raised = [kind |-> "ApiError", msg |-> pub.resp.msg]
        /\ pub.pc = "failed" => pub.err = "RetryError"

\* the publish call itself was answered 200 with success:false and msg m2
C6_Witness ==
    /\ pub.step = "publish"
    /\ pub.resp = [NoResp EXCEPT !.kind = "json", !.success = "false", !.msg = "m2"]
    /\ pub.pc = "backoff"

\* position of a request in the protocol: credential, then the uploads in
\* asset order, then the searches in keyword order, then publish
Rank(e) ==
    IF e.step = "permit" THEN 0
    ELSE IF e.step = "upload" THEN e.idx
    ELSE IF e.step = "search" THEN pub.nImages + e.idx
    ELSE pub.nImages + pub.nTopics + 1

\* C7: the requests of one run are sent in protocol order, one at a time (a
\* request is repeated only as a retry of the same signed call); a request
\* is sent only once every earlier step has succeeded, so publish is sent
\* only after the credential, all uploads and all searches succeeded; and
\* after a failure no further request is sent.
C7_StrictOrder ==
    /\ [](/\ pub.pending <= 1
          /\ \A i, j \in 1..Len(reqLog) :
                i < j => /\ Rank(reqLog[i]) <= Rank(reqLog[j])
                         /\ Rank(reqLog[i]) = Rank(reqLog[j]) => reqLog[i].sig # 0
          /\ \A i \in 1..Len(reqLog) : pub.stepsOk >= Rank(reqLog[i]))
    /\ [][pub.pc = "failed" => reqLog' = reqLog]_vars

\* a full run: two uploads and two searches, then the publish request
C7_Witness ==
    /\ pub.nImages = 2
    /\ pub.nTopics = 2
    /\ HasRequest("publish")
    /\ pub.pc = "done"

\* C20: a signed call makes at most 3 attempts and stops at the first one that
\* succeeds; when all 3 attempts fail (non-2xx status or success:false) the
\* caller receives the error of the last attempt.
C20_LastErrorSurfaced ==
    /\ pub.attempt <= RequestMaxAttempts
    /\ (pub.pc = "failed" /\ pub.raised # NoErr) =>
           (pub.attempt = RequestMaxAttempts /\ pub.err = pub.raised.kind)

\* C21: publish_note reports success = true only if the publish call completed
\* and returned a non-empty content identifier (note_id 0 stands for the empty
\* string that result.get("data", {}).get("note_id", "") yields when the answer
\* carries no identifier).
C21_SuccessHasIdentifier ==
    pub.pc = "done" =>
        (pub.step = "publish" /\ pub.resp.kind = "json" /\ pub.note_id > 0)

(***************************************************************************)
(* Properties of AsyncFileWriter.write_to_csv                              *)
(***************************************************************************)
RowsOf(c) == {k \in 1..Len(csvfile.rows) : csvfile.rows[k] = c}

C23_DeletedOnlyWhenConsumed ==
    /\ \A g \in gone : g.by = "delete" \/ (g.by = "publish" /\ g.ok)
    /\ \A f \in 1..tmpcount :
          f \notin tmpfiles => \E g \in gone : g.file = f /\ g.unlinked
    /\ \A g \in gone : g.unlinked => g.file \notin tmpfiles

\* one file was consumed by a successful publish, one was deleted explicitly,
\* and the file of a failed upload is still there
C23_Witness ==
    /\ \E g \in gone : g.by = "publish" /\ g.unlinked
    /\ \E g \in gone : g.by = "delete" /\ g.unlinked
    /\ \E f \in tmpfiles : f \notin uploading /\
          \A i \in FileIds : uploaded_images[i] # f

(***************************************************************************)
(* Further properties of XiaoHongShuPublisher.publish_note                 *)
(***************************************************************************)
RequestsOf(step, idx) ==
    {k \in 1..Len(reqLog) : reqLog[k].step = step /\ reqLog[k].idx = idx}

\* C24: every HTTP call of the pipeline, each image PUT included, is retried
\* within the attempt budget before its error reaches the caller: a run that
\* failed on an HTTP call has sent that call RequestMaxAttempts times.
C24_EveryCallRetried ==
    (pub.pc = "failed" /\ pub.err \in {"HttpError", "RetryError"}) =>
        Cardinality(RequestsOf(pub.step, pub.idx)) = RequestMaxAttempts

(***************************************************************************)
(* Properties of BrowserLauncher.find_available_port                       *)
(***************************************************************************)
\* the ports of [start, start + 99] that can be bound
Bindable ==
    {p \in probe.start_port..(probe.start_port + PortAttempts - 1) :
        p \in probe.free /\ p >= 0 /\ p <= MaxPort}

\* C25: find_available_port(start) returns the lowest port of
\* [start, start + 99] that can be bound, fails with the no-port-available
\* error (RuntimeError) if and only if none of those 100 ports can be bound,
\* and never returns a port outside that range.
C25_LowestBindablePort ==
    probe.outcome # NoOutcome =>
        /\ (probe.outcome.kind = "RuntimeError") <=> (Bindable = {})
        /\ probe.outcome.kind \in {"port", "RuntimeError"}
        /\ probe.outcome.kind = "port" =>
              /\ probe.outcome.port \in Bindable
              /\ \A p \in Bindable : probe.outcome.port <= p

(***************************************************************************)
(* Properties of BrowserLauncher.wait_for_browser_ready                    *)
(***************************************************************************)
\* C26: wait_for_browser_ready(port, timeout) always terminates; it reports
\* ready only after a TCP connect to the debug port succeeded, and otherwise
\* reports the failure (returns False) only once the timeout has elapsed.
C26_ReadyTerminates ==
    /\ <>(ready.pc = "returned")
    /\ [](ready.pc = "returned" =>
            IF ready.answer THEN ready.connected
            ELSE ready.time - ready.start_time >= 2 * ready.timeout)

\* the call gave up after several refused or unanswered connects, although
\* the port had started to listen
C26_Witness ==
    /\ ready.pc = "returned"
    /\ ~ready.answer
    /\ ready.connects > 1
    /\ ready.listening

(***************************************************************************)
(* Properties of BrowserLauncher.cleanup                                   *)
(***************************************************************************)
Forceful == {"kill_group", "kill_tree"}

\* C27: during cleanup() of a running process the forceful kill is sent only
\* after the graceful termination signal was sent to the whole process group
\* and the bounded wait for the exit timed out; a process that exits within
\* the wait receives no forceful kill.
C27_KillOnlyAfterGroupTerm ==
    (last.op = "cleanup" /\ last.found = "running") =>
        /\ \A k \in 1..Len(last.trace) :
              last.trace[k] \in Forceful =>
                  /\ k >= 3
                  /\ last.trace[k - 1] = "wait_timeout"
                  /\ last.trace[k - 2] = "term_group"
        /\ (\E k \in 1..Len(last.trace) :
               last.trace[k] = "wait_ok" /\ k > 1 /\ last.trace[k - 1] \notin Forceful)
              => \A k \in 1..Len(last.trace) : last.trace[k] \notin Forceful

\* C28: cleanup() never propagates an error to its caller, whatever its
\* signalling and waiting steps raise, and browser_process is None when it
\* returns.
C28_CleanupSwallowsErrors ==
    last.op = "cleanup" => (~last.raised /\ browser_process = 0)

\* the wait that follows the forceful kill timed out: TimeoutExpired was
\* raised inside the try block and cleanup() returned
C28_Witness ==
    /\ last.op = "cleanup"
    /\ last.error = "TimeoutExpired"
    /\ last.sent = 2
    /\ browser_process = 0

Uploads == {j \in 1..Len(reqLog) : reqLog[j].step = "upload"}

\* C29: on a successful upload_images run over k images whose returned file
\* ids are distinct, exactly k PUTs are made, the i-th of them uploading the
\* i-th image to the i-th file id with the permit's token; no file id serves
\* two images; and the returned list has the images' order and length.
C29_OnePutPerAssetInOrder ==
    LET k == pub.nImages
    IN (k > 0 /\ pub.images = k /\
        \A i, j \in 1..k : i # j => pub.slots[i] # pub.slots[j]) =>
          /\ Cardinality(Uploads) = k
          /\ \A i \in 1..k : \E j \in Uploads :
                /\ reqLog[j].idx = i
                /\ reqLog[j].slot = pub.slots[i]
                /\ reqLog[j].token = pub.token
                /\ Cardinality({h \in Uploads : h < j}) = i - 1
          /\ \A i, j \in Uploads : i # j => reqLog[i].slot # reqLog[j].slot
          /\ pub.results = [i \in 1..k |-> [local_path |-> i, file_id |-> pub.slots[i]]]

\* two images were uploaded to file ids that came in the order 2, 1, and the
\* note was published
C29_Witness ==
    /\ pub.pc = "done"
    /\ pub.nImages = 2
    /\ pub.images = 2
    /\ pub.slots = <<2, 1>>

\* the keywords whose search found something, in the order requested, each
\* with its first match
Resolved(matches) ==
    LET kept == SelectSeq([j \in 1..Len(matches) |-> j], LAMBDA j : matches[j] > 0)
    IN [i \in 1..Len(kept) |-> [keyword |-> kept[i], match |-> 1]]

\* C30: the resolved topic list of a publish_note run holds, for each
\* requested keyword in order, the first match of its search when the search
\* returned a match and nothing otherwise; a search without a match does not
\* fail the run, and a run that succeeds has searched every keyword.
C30_FirstMatchPerKeyword ==
    /\ pub.topics = Resolved(pub.matches)
    /\ (pub.pc = "failed" /\ pub.step = "search") => Len(pub.matches) < pub.idx
    /\ pub.pc = "done" => Len(pub.matches) = pub.nTopics

\* two keywords: the first search found nothing, the second two matches; the
\* note was published with the second keyword's first match
C30_Witness ==
    /\ pub.pc = "done"
    /\ pub.matches = <<0, 2>>
    /\ pub.topics = <<[keyword |-> 2, match |-> 1]>>

(***************************************************************************)
(* Properties of the page-view delay's extra time                          *)
(***************************************************************************)
\* min(L / 2000, 2.0) seconds, on the quarter-second grid
CappedShare(L) == IF L >= 4000 THEN 8 ELSE L \div 500

\* C31: the extra wait page_view_delay adds for content length L >= 0 is
\* min(L / 2000, 2) seconds: 0 for L = 0, never more than 2 seconds, and
\* non-decreasing in L; so the page-view delay never exceeds
\* PAGE_VIEW_MAX_SEC + 2.
C31_ExtraIsCappedShare ==
    (enabled /\ delay.cat = "page_view") =>
        /\ delay.extra = CappedShare(delay.len)
        /\ (delay.len = 0 => delay.extra = 0)
        /\ delay.extra >= 0 /\ delay.extra <= 8
        /\ delay.value <= DelayConfig.page_view[2] + 8
        /\ \A L \in Lengths :
               L <= delay.len => ExtraTime(L) <= delay.extra

\* a page under the cap was viewed: 2000 length units added one second
C31_Witness ==
    /\ enabled
    /\ delay.cat = "page_view"
    /\ delay.len = 2000
    /\ delay.extra = 4
    /\ delay.value = DelayConfig.page_view[2] + 4

(***************************************************************************)
(* Termination of ProxyIpPool.get_proxy                                    *)
(***************************************************************************)
\* the call of task t returns an endpoint in this step
Succeeds(t) == task[t].pc # "idle" /\ task'[t].pc = "idle" /\ task'[t].ret.kind = "ok"

\* C32: a get_proxy() call always terminates after at most 3 attempts: it
\* returns an endpoint in the first attempt that succeeds, fails only when
\* its third attempt has failed, and never goes on retrying.
C32_TerminatesWithinThree ==
    /\ \A t \in Tasks : (task[t].pc # "idle") ~> (task[t].pc = "idle")
    /\ [](\A t \in Tasks : task[t].attempts <= PoolMaxAttempts)
    /\ [][\A t \in Tasks :
             /\ Succeeds(t) => task[t].attempts \in 1..PoolMaxAttempts
             /\ GivesUp(t) => task[t].attempts = PoolMaxAttempts
             /\ (task[t].pc # "idle" /\ task'[t].pc # "idle")
                    => task'[t].attempts \in {task[t].attempts, task[t].attempts + 1}]_vars

\* one call has failed after its third attempt while another call, whose
\* first two attempts failed, waits to make its third
C32_Witness ==
    /\ task[1].pc = "idle"
    /\ task[1].ret.kind = "RetryError"
    /\ task[2].pc = "backoff"
    /\ task[2].attempts = 2

(***************************************************************************)
(* The writer's lock                                                       *)
(***************************************************************************)
\* the appends that hold the lock are those between "async with self.lock"
\* being entered and left
InCritical(c) == wcall[c].pc \in {"read", "open_w", "write", "close"}

CsvInCritical(c) == csvcall[c].pc \in {"open_a", "header", "row", "close"}

Over == {"done", "failed"}

\* C33: the writer's lock is released on every exit path of an append
\* (return, error, cancellation): it is held exactly by an append that is
\* inside its critical section, never by one that is over; and under fair
\* scheduling every append that starts eventually completes (an append is
\* one call and never starts again, so this says that from some moment on
\* every append either has not started or is over).
C33_LockReleasedAppendsComplete ==
    /\ [](\A c \in Calls : /\ wlock = c <=> InCritical(c)
                           /\ wlock = CsvHolder(c) <=> CsvInCritical(c))
    /\ <>[](\A c \in Calls : /\ wcall[c].pc \in Over \cup {"idle"}
                               /\ csvcall[c].pc \in Over \cup {"idle"})

\* a JSON append has failed, a CSV append has returned, and the lock has
\* passed on to a further append while another one waits for it
C33_Witness ==
    /\ wcall[1].pc = "failed"
    /\ csvcall[1].pc = "done"
    /\ wlock = 2
    /\ wcall[2].pc = "write"
    /\ csvcall[2].pc = "waiting"

(***************************************************************************)
(* Properties of ProxyRefreshMixin                                         *)
(***************************************************************************)
\* the _refresh_proxy_if_expired() call of client t returns in this step
RefreshReturns(t) == refreshing[t] # "returned" /\ refreshing'[t] = "returned"

\* C34: for clients that share a pool and took their proxy URL from it, when
\* a client's _refresh_proxy_if_expired() returns, the URL the client holds
\* is the URL of the pool's current endpoint, however the refreshes of the
\* clients interleave.
C34_ClientHoldsCurrentUrl ==
    [][\A t \in Tasks :
          RefreshReturns(t) => client_proxy'[t] = ProxyUrl(current_proxy')]_vars

(***************************************************************************)
(* Ownership of the browser process                                        *)
(***************************************************************************)
\* C35: a manager owns at most one live browser process: every process that
\* launch_browser() spawned and that is still running is the one
\* browser_process refers to, so that a later cleanup() reaches it, for every
\* sequence of launch_browser() and cleanup() calls.
C35_RunningIsReferenced ==
    \A k \in Procs : proc[k].leader = "running" => browser_process = k

(***************************************************************************)
(* The payload's hash_tag list and the tags of its description             *)
(***************************************************************************)
\* C36: for a description without hashtag text beforehand, the hash_tag
\* entries of the payload and the marker-wrapped tags of the composed
\* description correspond one-to-one: every resolved topic appears exactly
\* once in each, for every list of resolved topics.
C36_TagsOneToOne ==
    (composition.stage # "none" /\ ~Contains(composition.desc, <<"#">>)) =>
        \A k \in 1..Len(composition.topics) :
            LET name == composition.topics[k]
            IN /\ Cardinality({j \in 1..Len(composition.hash_tag) :
                                  composition.hash_tag[j] = name}) = 1
               /\ Occurrences(composition.once, TagText(name)) = 1

(***************************************************************************)
(* Appends that fail                                                       *)
(***************************************************************************)
FailedCalls == {c \in Calls : wcall[c].pc = "failed"}

\* C37: an append that fails or is cancelled at a suspension point leaves
\* the JSON target holding the document as it was before the call or the
\* document with the new record added, and no later append loses a record
\* that an earlier one stored: whenever no call is inside the locked section
\* the target holds a well-formed array with the records of all completed
\* calls and of some of the failed ones, each once.
C37_FailedAppendKeepsDocument ==
    wlock = 0 =>
        \E S \in SUBSET FailedCalls :
            IF DoneCalls \cup S = {}
            THEN wfile.text = <<>>
            ELSE /\ wfile.exists
                 /\ IsArrayText(wfile.text)
                 /\ Holds(ArrayItems(wfile.text), DoneCalls \cup S)

(***************************************************************************)
(* Temporary files and the registry of uploaded images                     *)
(***************************************************************************)
\* C38: every temporary file that upload intake created and that still
\* exists is recorded in the registry of uploaded images under its file id,
\* so that a later publish or delete request can remove it, in every state
\* reached through upload, publish and delete requests, failed ones
\* included (a file whose upload request is still running is not counted).
C38_ExistingFileIsRegistered ==
    \A f \in tmpfiles \ uploading : \E i \in FileIds : uploaded_images[i] = f

C40_CounterWithinInterval ==
    /\ action_count <= break_interval
    /\ NoneBreaking => (0 <= action_count /\ action_count < break_interval)

=============================================================================
